---- MODULE Spec2Model ----
(***************************************************************************)
(* Model of src/src/lgi.c: the compound manager (identity cache, wrapper   *)
(* creation, finalization, ancestry check, element access), the value and  *)
(* array marshallers and the generic call invoker.                         *)
(*                                                                         *)
(* Lua values, native pointers and the Lua stack are modelled as records   *)
(* and sequences; every C function keeps its name.                         *)
(***************************************************************************)
EXTENDS Integers, Sequences, FiniteSets, TLC

VARIABLES
  ud,        \* the 'lgi.compound' userdata ever allocated, by allocation order
  cache,     \* registry[LGI_REG_CACHE]: set of <<key pointer, userdata id>>
  typeinfo,  \* registry[LGI_REG_TYPEINFO][1..]: luaL_ref slots
  freelist,  \* registry[LGI_REG_TYPEINFO][0]: luaL_ref's free list head (0: nil)
  refs,      \* native reference counts taken by this core, per object address
  native,    \* native memory: the field bytes and property values of instances
  ret,       \* outcome of the last entry point that ran
  inv        \* the frame of function_call (its locals and its position)

vars == <<ud, cache, typeinfo, freelist, refs, native, ret, inv>>

----------------------------------------------------------------------------
(* Bounds of the model *)

\* number of compound userdata allocated in one run
MaxWrappers == 2
\* native instances per type
MaxAddr == 1

----------------------------------------------------------------------------
(* Constants of the program and of the libraries it is compiled against *)

\* lauxlib.h: luaL_ref's result for a nil value (lgi.c:632)
LUA_REFNIL == -1
\* gtype.h: G_TYPE_NONE, what g_registered_type_info_get_g_type gives a type
\* without a registered GType (lgi.c:773)
G_TYPE_NONE == 4
\* gtype.h: G_TYPE_OBJECT, the fundamental root of the object hierarchy
G_TYPE_OBJECT == 80
\* gtype.h: G_TYPE_FUNDAMENTAL_MAX; G_TYPE_IS_DERIVED(t) is t > this (lgi.c:774)
G_TYPE_FUNDAMENTAL_MAX == 1020

----------------------------------------------------------------------------
(* The introspection catalog and the repo table: the types of this model.  *)
(*   kind   g_base_info_get_type(info)                                     *)
(*   parent parent type in the GType hierarchy ("-": none)                 *)
(*   gtype  g_registered_type_info_get_g_type(info)                        *)
(*   repo   "entry": repo[namespace][name] is a table; "noname": the       *)
(*          namespace table exists and holds no entry of that name         *)
(*   hooks  the functions repo[namespace][name][0] declares                *)

InfoNames == {"Obj", "Sub", "Leaf", "Rec", "Pod", "Unr", "Enm", "Cb"}

Info(name) ==
  CASE name = "Obj"  -> [kind |-> "object", parent |-> "-", gtype |-> G_TYPE_OBJECT,
                         repo |-> "entry", hooks |-> {}]
    [] name = "Sub"  -> [kind |-> "object", parent |-> "Obj", gtype |-> 1024,
                         repo |-> "entry", hooks |-> {}]
    [] name = "Leaf" -> [kind |-> "object", parent |-> "Sub", gtype |-> 1028,
                         repo |-> "entry", hooks |-> {"index", "newindex"}]
    [] name = "Rec"  -> [kind |-> "struct", parent |-> "-", gtype |-> G_TYPE_NONE,
                         repo |-> "entry", hooks |-> {"acquire"}]
    [] name = "Pod"  -> [kind |-> "struct", parent |-> "-", gtype |-> G_TYPE_NONE,
                         repo |-> "entry", hooks |-> {"dispose"}]
    [] name = "Unr"  -> [kind |-> "object", parent |-> "Obj", gtype |-> 1032,
                         repo |-> "noname", hooks |-> {}]
    [] name = "Enm"  -> [kind |-> "enum", parent |-> "-", gtype |-> G_TYPE_NONE,
                         repo |-> "entry", hooks |-> {}]
    [] OTHER         -> [kind |-> "callback", parent |-> "-", gtype |-> G_TYPE_NONE,
                         repo |-> "noname", hooks |-> {}]

\* the types compound_store is called for (lgi.c:251-255, 505-507)
CompoundTypes == {t \in InfoNames : Info(t).kind \in {"object", "struct"}}

\* g_type_is_a(real, type) on the names of two types: walk up the parents
RECURSIVE IsA(_, _)
IsA(t, a) ==
  IF t = a THEN TRUE
  ELSE IF t = "-" \/ Info(t).parent = "-" THEN FALSE
  ELSE IsA(Info(t).parent, a)

----------------------------------------------------------------------------
(* Native pointers.  A pointer is null, the address of the n-th native     *)
(* instance of a type, the address of a userdata block (a pointer to       *)
(* struct ud_compound), the address of a userdata's inline data[], or the  *)
(* content of memory nobody wrote.  The same record is the content of a    *)
(* GArgument slot: besides a pointer it can be an integer ("int"), the     *)
(* address of array memory ("array", with the elements in mem) or an       *)
(* address read from bits that are no pointer ("wild").                    *)

Ptr(k, ty, n) == [k |-> k, ty |-> ty, n |-> n, mem |-> <<>>]
NullPtr == Ptr("null", "-", 0)
UninitPtr == Ptr("uninit", "-", 0)
NativePtr(ty, n) == Ptr("native", ty, n)
UdPtr(w) == Ptr("ud", "-", w)
DataPtr(w) == Ptr("data", "-", w)
IntVal(n) == Ptr("int", "-", n)
WildPtr(n) == Ptr("wild", "-", n)
\* the address of a C array (atype "c") or of a GArray (atype "array") whose
\* elements are elems
ArrPtr(atype, elems) == [k |-> "array", ty |-> atype, n |-> 0, mem |-> elems]

NativePtrs(ty) == {NativePtr(ty, n) : n \in 1..MaxAddr}
AllNativePtrs == UNION {NativePtrs(ty) : ty \in CompoundTypes}

----------------------------------------------------------------------------
(* Lua values *)

LuaVal(t, v, s, e) == [t |-> t, v |-> v, s |-> s, e |-> e]
Nil == LuaVal("nil", 0, "", <<>>)
Bool(b) == LuaVal("boolean", IF b THEN 1 ELSE 0, "", <<>>)
Num(n) == LuaVal("number", n, "", <<>>)
Str(s) == LuaVal("string", 0, s, <<>>)
Udata(w) == LuaVal("userdata", w, "", <<>>)
Table(e) == LuaVal("table", 0, "", e)
\* index 0 of the typeinfo table: nil, or the number luaL_unref left there
FreeListVal(n) == IF n = 0 THEN Nil ELSE Num(n)
\* the tables the registry holds, as values on the Lua stack
RegTab == LuaVal("regtab", 0, "", <<>>)
TypeinfoTab == LuaVal("typeinfotab", 0, "", <<>>)
RepoTab(name) == IF Info(name).repo = "entry" THEN LuaVal("repotab", 0, name, <<>>) ELSE Nil
\* repo[namespace][name][0]: the table holding name, type, gtype and the hooks
Repo0Tab(name) == LuaVal("repo0tab", 0, name, <<>>)

----------------------------------------------------------------------------
(* The process-wide tables as one value, so that the C functions can be    *)
(* written as operators from heap to heap.                                 *)

Heap == [ud |-> ud, cache |-> cache, typeinfo |-> typeinfo, freelist |-> freelist,
         refs |-> refs, native |-> native]

SetHeap(h) ==
  /\ ud' = h.ud
  /\ cache' = h.cache
  /\ typeinfo' = h.typeinfo
  /\ freelist' = h.freelist
  /\ refs' = h.refs
  /\ native' = h.native

\* struct ud_compound, with what the model remembers about it:
\*   live      not yet finalized
\*   tr        the transfer compound_store was called with
\*   unrefs    g_object_unref calls its finalizer made
\*   disposed  dispose hook calls its finalizer made
\*   acquired  acquire hook calls made with it
NewUd(type, tr) ==
  [type |-> type, addr |-> UninitPtr, owns |-> "uninit", ref_repo |-> LUA_REFNIL,
   inline |-> (tr = "container"), live |-> TRUE, tr |-> tr, unrefs |-> 0, disposed |-> 0,
   acquired |-> 0]

----------------------------------------------------------------------------
(* The identity cache *)

\* lgi_get_cached: the userdata cache[obj] holds, 0 when it holds none
lgi_get_cached(h, obj) ==
  LET hits == {e \in h.cache : e[1] = obj}
  IN IF hits = {} THEN 0 ELSE (CHOOSE e \in hits : TRUE)[2]

\* lgi_set_cached(L, obj) with userdata w at stack index -1: cache[obj] = w
lgi_set_cached(h, obj, w) ==
  [h EXCEPT !.cache = {e \in @ : e[1] # obj} \cup {<<obj, w>>}]

\* ClearWeak for a cache whose values are strong references
ClearWeak_Strong(h, w) == h

\* the cache has weak values: a collected userdata leaves it
ClearWeak(h, w) == [h EXCEPT !.cache = {e \in @ : e[2] # w}]

----------------------------------------------------------------------------
(* lauxlib's reference system on the typeinfo table *)

lua_tointeger(v) == IF v.t = "number" THEN v.v ELSE 0

\* luaL_ref(L, t) with v on the top of the stack
luaL_ref(h, v) ==
  IF v = Nil THEN [h |-> h, ref |-> LUA_REFNIL]
  ELSE IF h.freelist # 0
    THEN [h |-> [h EXCEPT !.typeinfo[h.freelist] = v,
                          !.freelist = lua_tointeger(h.typeinfo[h.freelist])],
          ref |-> h.freelist]
    ELSE [h |-> [h EXCEPT !.typeinfo = Append(@, v)], ref |-> Len(h.typeinfo) + 1]

\* luaL_unref(L, t, ref)
luaL_unref(h, ref) ==
  IF ref >= 0
    THEN [h EXCEPT !.typeinfo[ref] = FreeListVal(h.freelist), !.freelist = ref]
    ELSE h

\* lua_rawgeti(L, idx, n) on the typeinfo table
TypeinfoGet(h, n) ==
  IF n = 0 THEN FreeListVal(h.freelist)
  ELSE IF n \in 1..Len(h.typeinfo) THEN h.typeinfo[n]
  ELSE Nil

----------------------------------------------------------------------------
(* Repo metamethods *)

\* what a repo hook does when called with arg: the model counts the call on
\* the userdata it was given
ApplyHook(h, metaname, arg) ==
  IF arg.t # "userdata" THEN h
  ELSE IF metaname = "dispose" THEN [h EXCEPT !.ud[arg.v].disposed = @ + 1]
  ELSE IF metaname = "acquire" THEN [h EXCEPT !.ud[arg.v].acquired = @ + 1]
  ELSE h

\* compound_callmeta(L, metaname, nargs, nrets) on the Lua stack `stack`:
\* lua_rawgeti(L, -nargs-1, 0), lua_getfield(L, -1, metaname), and the call
\* when the field is not nil.  lua_getfield raises when the value is no table.
compound_callmeta(h, stack, metaname, nargs) ==
  LET tbl == stack[Len(stack) - nargs]
      t0 == IF tbl.t = "typeinfotab" THEN TypeinfoGet(h, 0)
            ELSE IF tbl.t = "repotab" THEN Repo0Tab(tbl.s)
            ELSE Nil
      arg == stack[Len(stack)]
  IN IF t0.t # "repo0tab"
       THEN [h |-> h, called |-> FALSE, raised |-> "attempt to index a " \o t0.t \o " value"]
     ELSE IF metaname \in Info(t0.s).hooks
       THEN [h |-> ApplyHook(h, metaname, arg), called |-> TRUE, raised |-> ""]
     ELSE [h |-> h, called |-> FALSE, raised |-> ""]

----------------------------------------------------------------------------
(* compound_store *)

\* what compound_store leaves: the heap, the number of values pushed and the
\* value, the Lua error it raised ("": none), *addr on return, and the
\* userdata it allocated (0: none)
StoreRes(h, vals, val, raised, addr, w) ==
  [h |-> h, vals |-> vals, val |-> val, raised |-> raised, addr |-> addr, w |-> w]

\* g_object_ref / g_object_unref on the instance at addr
g_object_ref(h, addr) ==
  IF addr \in DOMAIN h.refs THEN [h EXCEPT !.refs[addr] = @ + 1] ELSE h
g_object_unref(h, addr) ==
  IF addr \in DOMAIN h.refs THEN [h EXCEPT !.refs[addr] = @ - 1] ELSE h

\* lines 645-672: the ownership decision for the new userdata w, with the
\* stack <<ud, registry, repo table, typeinfo>> the code has built
StoreOwnership(h, w, info, addr, transfer, stack) ==
  IF transfer = "container"
    THEN [h |-> h, addr |-> DataPtr(w), transfer |-> transfer, raised |-> ""]
  ELSE IF transfer = "none" /\ Info(info).kind = "object"
    THEN [h |-> g_object_ref(h, addr), addr |-> addr, transfer |-> "everything",
          raised |-> ""]
  ELSE IF transfer = "none" /\ Info(info).kind = "struct"
    THEN LET m == compound_callmeta(h, Append(stack, stack[Len(stack) - 1]), "acquire", 1)
         IN [h |-> m.h, addr |-> addr,
             transfer |-> IF m.called THEN "everything" ELSE transfer,
             raised |-> m.raised]
  ELSE [h |-> h, addr |-> addr, transfer |-> transfer, raised |-> ""]

\* StoreCacheKey with the native address as the key
StoreCacheKey_Addr(w, addr) == addr

\* lgi_set_cached(L, compound): the key the new userdata is cached under
StoreCacheKey(w, addr) == UdPtr(w)

\* the transfer contract of compound_store (lines 18-23): with transfer
\* everything the caller's reference to an object becomes the core's
HandOver(h, info, addr, transfer) ==
  IF transfer = "everything" /\ Info(info).kind = "object" THEN g_object_ref(h, addr) ELSE h

\* lines 671-677, o being the ownership decision: a Lua error leaves the
\* function before them
StoreFinish(o, w, addr) ==
  IF o.raised # ""
    THEN StoreRes(o.h, 0, Nil, o.raised, addr, w)
    ELSE StoreRes(lgi_set_cached([o.h EXCEPT !.ud[w].addr = o.addr,
                                             !.ud[w].owns = IF o.transfer = "everything"
                                                              THEN "yes" ELSE "no"],
                                 StoreCacheKey(w, o.addr), w),
                  1, Udata(w), "", o.addr, w)

\* lines 643-669, r being the result of luaL_ref
StoreOwn(r, w, info, addr, transfer) ==
  StoreFinish(StoreOwnership([r.h EXCEPT !.ud[w].ref_repo = r.ref], w, info, addr, transfer,
                             <<Udata(w), RegTab, RepoTab(info), TypeinfoTab>>),
              w, addr)

\* lines 621-643: the new userdata w and the reference to its repo table
StoreAlloc(h, w, info, addr, transfer) ==
  StoreOwn(luaL_ref([h EXCEPT !.ud = Append(@, NewUd(info, transfer))], RepoTab(info)),
           w, info, addr, transfer)

compound_store_body(h, info, addr, transfer) ==
  IF transfer # "container" /\ addr = NullPtr
    THEN StoreRes(h, 1, Nil, "", addr, 0)
  ELSE IF lgi_get_cached(h, addr) # 0
    THEN StoreRes(h, 1, Udata(lgi_get_cached(h, addr)), "", addr, 0)
  ELSE StoreAlloc(h, Len(h.ud) + 1, info, addr, transfer)

----------------------------------------------------------------------------
(* compound_gc *)

\* compound_prepare: typeinfo[compound->ref_repo], asserted not to be nil
compound_prepare(h, w) == TypeinfoGet(h, h.ud[w].ref_repo)

\* GcRelease with the release forgotten
GcRelease_Forgotten(h, w, rt) == h

\* lines 684-711: the release, for a userdata whose owns flag reads true and
\* whose repo table is rt
GcRelease(h, w, rt) ==
  IF Info(rt.s).kind = "struct"
    THEN compound_callmeta(h, <<Udata(w), TypeinfoTab, rt, Udata(w)>>, "dispose", 1).h
  ELSE IF Info(rt.s).kind = "object"
    THEN [g_object_unref(h, h.ud[w].addr) EXCEPT !.ud[w].unrefs = @ + 1]
  ELSE h

\* a finalized userdata: its block is freed, and the model keeps what it
\* remembers about it
Freed(u) ==
  [u EXCEPT !.live = FALSE, !.addr = UninitPtr, !.owns = "uninit", !.ref_repo = LUA_REFNIL]

\* compound_gc of userdata w; owns_read is what an owns flag that was never
\* written reads as
compound_gc(h, w, owns_read) ==
  LET rt == compound_prepare(h, w)
      owns == IF h.ud[w].owns = "uninit" THEN owns_read ELSE h.ud[w].owns = "yes"
      h1 == IF owns THEN GcRelease(h, w, rt) ELSE h
      h2 == luaL_unref(h1, h.ud[w].ref_repo)
  IN IF rt.t # "repotab"
       THEN [h |-> h, crash |-> "g_assert(!lua_isnil(L, -1))"]
       ELSE [h |-> [h2 EXCEPT !.ud[w] = Freed(@)], crash |-> ""]

compound_store(h, info, addr, transfer) ==
  compound_store_body(HandOver(h, info, addr, transfer), info, addr, transfer)

----------------------------------------------------------------------------
(* compound_load *)

LoadRes(addr, raised, argpos, crash) ==
  [addr |-> addr, raised |-> raised, argpos |-> argpos, crash |-> crash]

\* G_TYPE_IS_DERIVED(type)
G_TYPE_IS_DERIVED(gtype) == gtype > G_TYPE_FUNDAMENTAL_MAX

\* whether addr is the address of a GTypeInstance, which alone
\* G_TYPE_FROM_INSTANCE may be applied to
IsInstance(addr) == addr.k = "native" /\ Info(addr.ty).kind = "object"

\* lines 771-785: the comparison by runtime type; ub is the outcome of
\* G_TYPE_FROM_INSTANCE when compound->addr is not an instance
LoadByGType(c, index, ii, optional, ub) ==
  LET isa == IF IsInstance(c.addr) THEN IsA(c.addr.ty, ii) ELSE ub = "is_a"
  IN IF ~IsInstance(c.addr) /\ ub = "crash"
       THEN LoadRes(NullPtr, "", 0, "G_TYPE_FROM_INSTANCE of memory that is no instance")
     ELSE IF isa THEN LoadRes(c.addr, "", 0, "")
     ELSE IF ~optional THEN LoadRes(NullPtr, "argerror", index, "")
     ELSE LoadRes(NullPtr, "", 0, "")

\* lines 786-804: the comparison by name, of repo[..][0].name of the
\* userdata's repo table with namespace.name of ii
LoadByName(h, w, index, ii, optional) ==
  LET rt == compound_prepare(h, w)
  IN IF rt.t # "repotab"
       THEN LoadRes(NullPtr, "", 0, "g_assert(!lua_isnil(L, -1))")
     ELSE IF rt.s = ii THEN LoadRes(h.ud[w].addr, "", 0, "")
     ELSE IF ~optional THEN LoadRes(NullPtr, "argerror", index, "")
     ELSE LoadRes(NullPtr, "", 0, "")

\* lines 773-774: which of the two comparisons the requested type selects
LoadUsesGType(ii) == G_TYPE_IS_DERIVED(Info(ii).gtype)

\* compound_load(L, index, ii, optional) of the Lua value val at index
compound_load(h, index, val, ii, optional, ub) ==
  IF val.t # "userdata"
    THEN IF optional THEN LoadRes(NullPtr, "", 0, "")
         ELSE LoadRes(NullPtr, "argerror", index, "")
  ELSE IF LoadUsesGType(ii) THEN LoadByGType(h.ud[val.v], index, ii, optional, ub)
  ELSE LoadByName(h, val.v, index, ii, optional)

----------------------------------------------------------------------------
(* Type descriptors (GITypeInfo):                                          *)
(*   tag    g_type_info_get_tag                                            *)
(*   iface  g_type_info_get_interface, for tag "interface"                 *)
(*   atype  g_type_info_get_array_type: "c" or "array" (GArray)            *)
(*   fixed  g_type_info_get_array_fixed_size (-1: none)                    *)
(*   zt     g_type_info_is_zero_terminated                                 *)
(*   param  <<g_type_info_get_param_type(ti, 0)>> for an array             *)

TI(tag, iface, atype, fixed, zt, param) ==
  [tag |-> tag, iface |-> iface, atype |-> atype, fixed |-> fixed, zt |-> zt,
   param |-> param]
TScalar(tag) == TI(tag, "-", "-", 0, FALSE, <<>>)
TIface(name) == TI("interface", name, "-", 0, FALSE, <<>>)
TArray(atype, fixed, zt, eti) == TI("array", "-", atype, fixed, zt, <<eti>>)
\* a function that returns nothing
TVoid == TScalar("void")
\* a tag neither the scalar table nor lgi_val_to_lua knows
TGList == TScalar("glist")

\* g_enum_info_get_storage_type(ii)
g_enum_info_get_storage_type(ii) == "int32"

\* the tags decltype.h declares, of those the model uses
ScalarTags == {"boolean", "int32"}

\* lgi_type_get_size with the size of no tag known
lgi_type_get_size_Zero(tag) == 0

\* lgi_type_get_size: sizeof(ctype) for a tag of the table, 0 otherwise
lgi_type_get_size(tag) == IF tag \in ScalarTags THEN 4 ELSE 0

\* the bytes one element takes in native array memory
ElemBytes(eti) == IF eti.tag \in ScalarTags THEN 4 ELSE 8

\* what a slot reads as when read as an integer; garbage is what bits that
\* were never written, or that hold an address, read as
SlotBits(v, garbage) ==
  IF v.k = "int" THEN v.n ELSE IF v.k = "null" THEN 0 ELSE garbage

\* what a slot reads as when read as val->v_pointer
SlotPtr(v, garbage) ==
  IF v.k \in {"int", "uninit"}
    THEN (IF SlotBits(v, garbage) = 0 THEN NullPtr ELSE WildPtr(SlotBits(v, garbage)))
    ELSE v

IsNull(v) == SlotPtr(v, 1) = NullPtr

\* push(L, val->argf) of the table: lua_pushboolean, lua_pushinteger
push(tag, bits) == IF tag = "boolean" THEN Bool(bits # 0) ELSE Num(bits)

\* what a marshaller to Lua leaves: the heap, the number of values pushed and
\* the value, the Lua error raised, why the process stopped, whether it
\* read through a null pointer, and the release calls it made on native
\* array containers
VRes(h, vals, val, raised, crash, nullread) ==
  [h |-> h, vals |-> vals, val |-> val, raised |-> raised, crash |-> crash,
   nullread |-> nullread, released |-> <<>>]

\* the outcomes of undefined reads a marshaller can meet:
\*   garbage  what unset bits read as
\*   deref    what a read through an invalid pointer does
UbOutcomes == [garbage : {0, 77}, deref : {"crash", "read"}]

lgi_simple_val_to_lua(tag, transfer, val, ub) ==
  IF tag \in ScalarTags
    THEN [vals |-> 1, val |-> push(tag, SlotBits(val, ub.garbage))]
    ELSE [vals |-> 0, val |-> Nil]

RECURSIVE lgi_val_to_lua(_, _, _, _, _)
RECURSIVE ArrayLoop(_, _, _, _, _, _, _, _, _, _)
RECURSIVE ArrayElem(_, _, _, _, _, _, _, _, _, _)

\* lines 204: zero_terminated && eval->v_pointer == NULL, an 8-byte read at
\* the element's offset
ElemIsNull(mem, slot, eti, ub) ==
  IF ElemBytes(eti) = 8 THEN IsNull(mem[slot])
  ELSE /\ IsNull(mem[slot])
       /\ IF slot + 1 <= Len(mem) THEN IsNull(mem[slot + 1]) ELSE ub.garbage = 0

\* lines 192-210: the loop over the elements from index on, tbl being the
\* table built so far
ArrayLoop(h, eti, realTransfer, val, index, len, size, zt, tbl, ub) ==
  IF ~(len < 0 \/ index < len) THEN VRes(h, 1, Table(tbl), "", "", FALSE)
  ELSE
    LET slot == (index * size) \div ElemBytes(eti) + 1
    IN IF slot > Len(val.mem)
         THEN VRes(h, 0, Nil, "", "read past the end of the array", FALSE)
       ELSE IF zt /\ ElemIsNull(val.mem, slot, eti, ub)
         THEN VRes(h, 1, Table(tbl), "", "", FALSE)
       ELSE IF size = 0 /\ len < 0 /\ index >= 1
         THEN VRes(h, 0, Nil, "", "the loop reads the same element without end", FALSE)
       ELSE ArrayElem(lgi_val_to_lua(h, eti, realTransfer, val.mem[slot], ub),
                      eti, realTransfer, val, index, len, size, zt, tbl, ub)

\* lines 208-209, r being what lgi_val_to_lua left for the element at index
ArrayElem(r, eti, realTransfer, val, index, len, size, zt, tbl, ub) ==
  IF r.raised # "" \/ r.crash # "" THEN r
  ELSE ArrayLoop(r.h, eti, realTransfer, val, index + 1, len, size, zt,
                 Append(tbl, IF r.vals = 1 THEN r.val ELSE Nil), ub)

\* lgi_array_to_lua with the fixed size of the descriptor taken before the
\* runtime length of a growable array
lgi_array_to_lua_FixedFirst(h, ti, transfer, val, ub) ==
  LET len == IF ti.fixed >= 0 \/ ti.atype # "array" THEN ti.fixed ELSE Len(val.mem)
  IN IF IsNull(val) THEN VRes(h, 1, Nil, "", "", FALSE)
     ELSE ArrayLoop(h, ti.param[1], transfer, val, 0, len,
                    lgi_type_get_size(ti.param[1].tag), ti.zt, <<>>, ub)

\* ArrayRelease with the container released whatever the transfer is
ArrayRelease_Always(r, atype, transfer) ==
  [r EXCEPT !.released = Append(@, IF atype = "c" THEN "g_free" ELSE "g_array_unref")]

\* lines 212-219, r being what the loop left: a Lua error or a stopped
\* process does not come here
ArrayRelease(r, atype, transfer) ==
  IF r.raised # "" \/ r.crash # "" \/ transfer = "none" THEN r
  ELSE [r EXCEPT !.released = Append(@, IF atype = "c" THEN "g_free" ELSE "g_array_unref")]

lgi_array_to_lua(h, ti, transfer, val, ub) ==
  LET atype == ti.atype
      eti == ti.param[1]
      size == lgi_type_get_size(eti.tag)
      valid == val.k = "array"
      len == IF atype = "array"
               THEN (IF valid THEN Len(val.mem) ELSE ub.garbage)
               ELSE ti.fixed
      realTransfer == IF transfer = "everything" THEN "everything" ELSE "none"
  IN IF atype = "array" /\ ~valid /\ ub.deref = "crash"
       THEN VRes(h, 0, Nil, "", "read of ((GArray*)val->v_pointer)->len", IsNull(val))
     ELSE IF IsNull(val)
       THEN VRes(h, 1, Nil, "", "", atype = "array")
     ELSE IF ~valid
       THEN VRes(h, 0, Nil, "", "read of array elements through an unset pointer", FALSE)
     ELSE ArrayRelease(ArrayLoop(h, eti, realTransfer, val, 0, len, size, ti.zt, <<>>, ub),
                       atype, transfer)

\* what compound_store left, as the result of lgi_val_to_lua
StoredVal(r) == VRes(r.h, r.vals, r.val, r.raised, "", FALSE)

\* line 254: compound_store(L, ii, &val->v_pointer, transfer), p being the
\* pointer the slot reads as
CompoundToLua(h, ii, transfer, p, ub) ==
  IF /\ p.k = "wild" /\ transfer = "none"
     /\ Info(ii).kind = "object" /\ ub.deref = "crash"
    THEN VRes(h, 0, Nil, "", "g_object_ref of an unset pointer", FALSE)
    ELSE StoredVal(compound_store(h, ii, p, transfer))

lgi_val_to_lua(h, ti, transfer, val, ub) ==
  LET s == lgi_simple_val_to_lua(ti.tag, transfer, val, ub)
  IN IF s.vals # 0 THEN VRes(h, s.vals, s.val, "", "", FALSE)
     ELSE IF ti.tag = "interface"
       THEN IF Info(ti.iface).kind = "enum"
              THEN LET e == lgi_simple_val_to_lua(g_enum_info_get_storage_type(ti.iface),
                                                  "none", val, ub)
                   IN VRes(h, e.vals, e.val, "", "", FALSE)
            ELSE IF Info(ti.iface).kind \in {"struct", "object"}
              THEN CompoundToLua(h, ti.iface, transfer, SlotPtr(val, ub.garbage), ub)
            ELSE VRes(h, 0, Nil, "", "", FALSE)
     ELSE IF ti.tag = "array" THEN lgi_array_to_lua(h, ti, transfer, val, ub)
     ELSE VRes(h, 0, Nil, "", "", FALSE)

----------------------------------------------------------------------------
(* Marshalling from Lua *)

\* what a marshaller from Lua leaves: the number of stack values it used,
\* whether it wrote the slot and with what, the Lua error raised and the
\* argument position it names, and why the process stopped
FRes(vals, set, slot, raised, argpos, crash) ==
  [vals |-> vals, set |-> set, slot |-> slot, raised |-> raised, argpos |-> argpos,
   crash |-> crash]

\* check(L, index) of the table: lua_toboolean for a boolean, which takes
\* every value, and luaL_checkinteger, which raises for what is no number
check(tag, index, v) ==
  IF tag = "boolean"
    THEN FRes(1, TRUE, IntVal(IF v.t = "nil" \/ (v.t = "boolean" /\ v.v = 0) THEN 0 ELSE 1),
              "", 0, "")
  ELSE IF v.t = "number" THEN FRes(1, TRUE, IntVal(v.v), "", 0, "")
  ELSE FRes(0, FALSE, NullPtr, "argerror", index, "")

lgi_simple_val_from_lua(index, v, tag, optional) ==
  IF tag \in ScalarTags
    THEN IF optional /\ v.t = "nil" THEN FRes(1, TRUE, IntVal(0), "", 0, "")
         ELSE check(tag, index, v)
    ELSE FRes(0, FALSE, NullPtr, "", 0, "")

\* what G_TYPE_FROM_INSTANCE of memory that is no instance does, of the
\* undefined reads ub
LoadUb(ub) ==
  IF ub.deref = "crash" THEN "crash" ELSE IF ub.garbage = 0 THEN "not_a" ELSE "is_a"

\* lines 322-323: what compound_load left, as the result of lgi_val_from_lua
LoadedVal(r) == FRes(1, TRUE, r.addr, r.raised, r.argpos, r.crash)

lgi_val_from_lua(h, index, v, ti, optional, ub) ==
  LET s == lgi_simple_val_from_lua(index, v, ti.tag, optional)
  IN IF ~(s.vals = 0 /\ s.raised = "" /\ ti.tag = "interface") THEN s
     ELSE IF Info(ti.iface).kind = "enum"
       THEN lgi_simple_val_from_lua(index, v, g_enum_info_get_storage_type(ti.iface),
                                    optional)
     ELSE IF Info(ti.iface).kind \in {"struct", "object"}
       THEN LoadedVal(compound_load(h, index, v, ti.iface, optional, LoadUb(ub)))
     ELSE s

\* lgi_type_new(L, ii, val), p being what the unset val->v_pointer reads as
lgi_type_new(h, ii, p) ==
  IF Info(ii).kind \in {"struct", "object"}
    THEN compound_store(h, ii, p, "container")
    ELSE StoreRes(h, 0, Nil, "", p, 0)

\* lgi_error(L, err): the values it returns
lgi_error_NoDetails(err) == <<Bool(FALSE)>>

lgi_error(err) ==
  IF err.set THEN <<Bool(FALSE), Str(err.message), Num(err.code)>> ELSE <<Bool(FALSE)>>

----------------------------------------------------------------------------
(* Callables (GIFunctionInfo):                                             *)
(*   method    GI_FUNCTION_IS_METHOD and not GI_FUNCTION_IS_CONSTRUCTOR    *)
(*   container g_base_info_get_container, the type of self                 *)
(*   throws    GI_FUNCTION_THROWS                                          *)
(*   args      per argument: direction, type, optional or may-be-null,     *)
(*             caller-allocates, ownership transfer                        *)
(*   rti, caller_owns   return type and its ownership transfer             *)

Arg(dir, ti, opt, calloc, transfer) ==
  [dir |-> dir, ti |-> ti, opt |-> opt, calloc |-> calloc, transfer |-> transfer]

Callable(method, container, throws, args, rti, caller_owns) ==
  [method |-> method, container |-> container, throws |-> throws, args |-> args,
   rti |-> rti, caller_owns |-> caller_owns]

FnNames == {"Shape", "New", "GetRec", "Method", "Opt", "Unsup", "Fill", "List", "Incr",
            "Arr", "FillOwn", "FillRec"}

Fn(name) ==
  CASE name = "Shape"  -> Callable(FALSE, "-", TRUE,
                            <<Arg("in", TScalar("int32"), FALSE, FALSE, "none"),
                              Arg("out", TScalar("int32"), FALSE, FALSE, "none")>>,
                            TScalar("boolean"), "none")
    [] name = "New"    -> Callable(FALSE, "-", FALSE, <<>>, TIface("Sub"), "everything")
    [] name = "GetRec" -> Callable(FALSE, "-", FALSE, <<>>, TIface("Pod"), "none")
    [] name = "Method" -> Callable(TRUE, "Sub", FALSE,
                            <<Arg("in", TIface("Sub"), FALSE, FALSE, "none")>>,
                            TVoid, "none")
    [] name = "Opt"    -> Callable(FALSE, "-", TRUE,
                            <<Arg("in", TIface("Sub"), TRUE, FALSE, "none")>>,
                            TScalar("int32"), "none")
    [] name = "Unsup"  -> Callable(FALSE, "-", FALSE,
                            <<Arg("in", TGList, FALSE, FALSE, "none")>>,
                            TIface("Cb"), "none")
    [] name = "Fill"   -> Callable(FALSE, "-", FALSE,
                            <<Arg("out", TIface("Pod"), FALSE, TRUE, "none")>>,
                            TVoid, "none")
    [] name = "FillOwn" -> Callable(FALSE, "-", FALSE,
                            <<Arg("out", TIface("Pod"), FALSE, TRUE, "everything")>>,
                            TVoid, "none")
    [] name = "FillRec" -> Callable(FALSE, "-", FALSE,
                            <<Arg("out", TIface("Rec"), FALSE, TRUE, "none")>>,
                            TScalar("int32"), "none")
    [] name = "List"   -> Callable(FALSE, "-", FALSE, <<>>,
                            TArray("array", -1, FALSE, TScalar("int32")), "everything")
    [] name = "Arr"    -> Callable(FALSE, "-", FALSE,
                            <<Arg("in", TArray("c", -1, TRUE, TScalar("int32")),
                                  FALSE, FALSE, "none"),
                              Arg("in", TScalar("boolean"), FALSE, FALSE, "none")>>,
                            TVoid, "none")
    [] OTHER           -> Callable(FALSE, "-", FALSE,
                            <<Arg("inout", TScalar("int32"), FALSE, FALSE, "none")>>,
                            TVoid, "none")

----------------------------------------------------------------------------
(* Native memory.  native[a] is the instance at address a: f are its field  *)
(* slots of four bytes each (slot k + 1 is at byte offset 4k) and p the     *)
(* values of its properties, which only the property accessors of the       *)
(* object system read and write.                                            *)

\* number of compound userdata the stores of a run of SpecElem make, and
\* that a run of SpecArr marshals a further array with
MaxElemWrappers == 1

PropNames == {"rwp", "rop", "wop", "obp"}

\* the addresses that hold an instance are the native instances and the inline
\* data[] of the userdata compound_store allocates with transfer container;
\* a native instance holds what native code wrote, its property obp the
\* address of an object (of the instance itself, for an instance of Sub);
\* the block lua_newuserdata returns holds no written value (line 627)
InitNative ==
  [a \in AllNativePtrs \cup {DataPtr(w) : w \in 1..MaxElemWrappers} |->
     IF a.k = "native"
       THEN [f |-> <<IntVal(1), IntVal(0), IntVal(3)>>,
             p |-> [n \in PropNames |->
                      IF n # "obp" THEN IntVal(4)
                      ELSE IF a.ty = "Sub" THEN a ELSE NullPtr]]
       ELSE [f |-> <<UninitPtr, UninitPtr, UninitPtr>>, p |-> [n \in PropNames |-> UninitPtr]]]

----------------------------------------------------------------------------
(* The outcome of an entry point, as the Lua caller and the model see it:   *)
(*   op, info, ptr, tr, arg, opt   the entry point and its inputs           *)
(*   vals, val    number of values returned and the (first) value           *)
(*   raised       the Lua error raised ("": none)                           *)
(*   crash        why the process stopped ("": it did not)                  *)
(*   w            the userdata the entry point allocated (0: none)          *)
(*   out          the address it produced                                   *)

(*   argpos       the argument position an argument error names            *)
(*   ti           the type descriptor a marshaller was given                *)
(*   nullread     whether it read through a null pointer                    *)
(*   released     the release calls made on native array containers         *)
(*   elem, nv     the element name and the new value of an element access   *)
(*   hook         the repo hook the access called, with its arguments       *)
(*   accessor     the property accessor the access called ("": none)        *)
(*   pre          the native memory when the access began                   *)
Outcome(op, info, ptr, tr, arg, opt, vals, val, raised, crash, w, out) ==
  [op |-> op, info |-> info, ptr |-> ptr, tr |-> tr, arg |-> arg, opt |-> opt,
   vals |-> vals, val |-> val, raised |-> raised, crash |-> crash, w |-> w, out |-> out,
   argpos |-> 0, ti |-> TVoid, nullread |-> FALSE, released |-> <<>>,
   elem |-> "", nv |-> Nil, hook |-> <<>>, accessor |-> "", pre |-> <<>>]

NoOutcome == Outcome("init", "-", NullPtr, "", Nil, FALSE, 0, Nil, "", "", 0, NullPtr)

Running == ret.crash = ""

\* control is with the Lua program: no entry point's outcome is pending
AtLua == ret.op = "init"

\* the frame of function_call while no call is in progress
IdleFrame == [pc |-> "idle"]

Transfers == {"none", "everything", "container"}

\* what the address slot of a 'construct new instance' request may hold on
\* entry: lgi_get passes the address of an unset local (line 1158)
UnsetSlotPtrs(info) ==
  {NullPtr} \cup {UdPtr(w) : w \in 1..Len(ud)}

StoreAddrs(info, transfer) ==
  IF transfer = "container" THEN UnsetSlotPtrs(info) ELSE {NullPtr} \cup NativePtrs(info)

----------------------------------------------------------------------------
(* Entry points of the compound manager *)

\* lgi_compound_create / lgi_val_to_lua of a struct or object: compound_store
Store(info, addr, transfer) ==
  LET r == compound_store(Heap, info, addr, transfer)
  IN /\ AtLua
     /\ inv.pc = "idle"
     /\ Len(r.h.ud) <= MaxWrappers
     /\ SetHeap(r.h)
     /\ ret' = Outcome("store", info, addr, transfer, Nil, FALSE, r.vals, r.val, r.raised,
                       "", r.w, r.addr)
     /\ UNCHANGED inv

\* the collector finalizes userdata w: the weak cache drops it, then __gc runs
Collect(w, owns_read) ==
  LET r == compound_gc(ClearWeak(Heap, w), w, owns_read)
  IN /\ AtLua
     /\ inv.pc = "idle"
     /\ ud[w].live
     /\ SetHeap(r.h)
     /\ ret' = Outcome("gc", ud[w].type, ud[w].addr, "", Udata(w), FALSE, 0, Nil, "",
                       r.crash, 0, NullPtr)
     /\ UNCHANGED inv

\* the Lua values a caller can hold: nil, a number, and the userdata that an
\* entry point returned and that were not collected
Reachable(w) == ud[w].live /\ ud[w].owns # "uninit"
ArgVals == {Nil, Num(5)} \cup {Udata(w) : w \in {x \in 1..Len(ud) : Reachable(x)}}

\* which outcomes of reading a non-instance's type the call can meet: the
\* read of the type of memory that is no instance can stop the process or
\* give a type that is, or is not, the one asked for
UbChoices(val, ii) ==
  IF val.t = "userdata" /\ LoadUsesGType(ii) /\ ~IsInstance(ud[val.v].addr)
    THEN {"crash", "is_a", "not_a"} ELSE {"is_a"}

\* lgi_compound_get(L, 1, ii, optional): compound_load
Load(val, ii, optional, ub) ==
  LET r == compound_load(Heap, 1, val, ii, optional, ub)
  IN /\ AtLua
     /\ inv.pc = "idle"
     /\ ret' = [Outcome("load", ii, NullPtr, "", val, optional, 0, Nil, r.raised, r.crash,
                         0, r.addr) EXCEPT !.argpos = r.argpos]
     /\ UNCHANGED <<ud, cache, typeinfo, freelist, refs, native, inv>>

\* the Lua program takes the outcome of the entry point and goes on; a
\* process that stopped does not
Resume ==
  /\ Running
  /\ ret.op # "init"
  /\ inv.pc = "idle"
  /\ ret' = NoOutcome
  /\ UNCHANGED <<ud, cache, typeinfo, freelist, refs, native, inv>>

OwnsReads(w) == IF ud[w].owns = "uninit" THEN BOOLEAN ELSE {FALSE}

Init ==
  /\ ud = <<>>
  /\ cache = {}
  /\ typeinfo = <<>>
  /\ freelist = 0
  /\ refs = [a \in UNION {NativePtrs(t) : t \in {x \in CompoundTypes : Info(x).kind = "object"}} |-> 0]
  /\ native = InitNative
  /\ ret = NoOutcome
  /\ inv = IdleFrame

\* the types the store and collection steps of Spec are run for: an object
\* with a repo entry, an object without one, a struct that declares acquire
\* and a struct that declares dispose
StoreTypes == {"Sub", "Unr", "Rec", "Pod"}

Next ==
  \/ \E info \in StoreTypes, transfer \in Transfers :
       \E addr \in StoreAddrs(info, transfer) : Store(info, addr, transfer)
  \/ \E w \in 1..Len(ud) : \E o \in OwnsReads(w) : Collect(w, o)
  \/ Resume

Spec == Init /\ [][Next]_vars

----------------------------------------------------------------------------
(* SpecLoad: compound_load applied to the wrappers compound_store makes, for *)
(* every type of the model                                                   *)

\* number of userdata a run of SpecLoad stores before it loads
MaxLoadWrappers == 1

StoreForLoad(info, addr, transfer) ==
  /\ Len(ud) < MaxLoadWrappers
  /\ Store(info, addr, transfer)

NextLoad ==
  \/ \E info \in CompoundTypes, transfer \in Transfers :
       \E addr \in StoreAddrs(info, transfer) : StoreForLoad(info, addr, transfer)
  \/ \E val \in ArgVals, ii \in CompoundTypes, optional \in BOOLEAN :
       \E ub \in UbChoices(val, ii) : Load(val, ii, optional, ub)
  \/ Resume

SpecLoad == Init /\ [][NextLoad]_vars

----------------------------------------------------------------------------
(* SpecVal: lgi_val_to_lua applied to native values of every kind of type    *)
(* descriptor, as function_call applies it to a return slot (line 1074)      *)

\* elements of a native array
MaxLen == 2

\* the type descriptors SpecVal marshals
ValTIs ==
  {TScalar("int32"), TScalar("boolean"), TGList, TIface("Enm"), TIface("Cb"),
   TIface("Sub"), TIface("Pod"),
   TArray("array", -1, FALSE, TScalar("int32")),
   TArray("c", -1, TRUE, TIface("Sub")),
   TArray("c", -1, TRUE, TScalar("int32")),
   TArray("c", -1, FALSE, TScalar("int32")),
   TArray("array", -1, FALSE, TIface("Pod")),
   TArray("array", -1, FALSE, TIface("Sub")),
   TArray("array", 1, FALSE, TScalar("int32")),
   TArray("c", 2, TRUE, TScalar("boolean"))}
  \cup {TArray("c", n, FALSE, TScalar(tag)) : n \in 0..MaxLen, tag \in ScalarTags}

\* the values an element of a native array can hold: the address of an
\* instance, or a scalar, zero included
ElemVals(ti) ==
  IF ti.tag = "interface" /\ ti.iface \in CompoundTypes THEN NativePtrs(ti.iface)
  ELSE IF ti.tag = "boolean" THEN {IntVal(0), IntVal(1)}
  ELSE {IntVal(0), IntVal(5)}

\* the null element that ends a zero-terminated array
Terminator(eti) == IF eti.tag \in ScalarTags THEN IntVal(0) ELSE NullPtr

\* sequences of n elements; an element of an object type can hold the
\* address of an instance of a type derived from it
ElemSeqs(ti, n) ==
  [1..n -> ElemVals(ti) \cup
           (IF ti.tag = "interface" /\ ti.iface \in CompoundTypes
              THEN UNION {NativePtrs(t) : t \in {x \in CompoundTypes : IsA(x, ti.iface)}}
              ELSE {})]

\* the memory a native array of type ti can have: the fixed number of
\* elements, or up to MaxLen elements; for a zero-terminated one the
\* terminator, and what the memory holds behind it
ArrayMems(ti) ==
  LET eti == ti.param[1]
      lens == IF ti.fixed >= 0 /\ ti.atype = "c" THEN {ti.fixed} ELSE 0..MaxLen
      elems == UNION {ElemSeqs(eti, n) : n \in lens}
      behind == UNION {ElemSeqs(eti, n) : n \in 0..1}
  IN IF ti.zt THEN {Append(m, Terminator(eti)) \o b : m \in elems, b \in behind}
     ELSE elems

\* the values a native slot of type ti can hold
NativeVals(ti) ==
  IF ti.tag = "array" THEN {NullPtr} \cup {ArrPtr(ti.atype, m) : m \in ArrayMems(ti)}
  ELSE IF ti.tag = "interface" /\ ti.iface \in CompoundTypes THEN {NullPtr} \cup ElemVals(ti)
  ELSE {IntVal(0)} \cup ElemVals(ti)

\* the transfers a value is marshalled to Lua with
ValTransfers == {"none", "container", "everything"}

ToLua(ti, transfer, val, ub) ==
  /\ AtLua
  /\ inv.pc = "idle"
  /\ \E r \in {lgi_val_to_lua(Heap, ti, transfer, val, ub)} :
     /\ Len(r.h.ud) <= MaxWrappers
     /\ SetHeap(r.h)
     /\ ret' = [Outcome("to_lua", ti.iface, val, transfer, Nil, FALSE, r.vals, r.val,
                        r.raised, r.crash,
                        IF Len(r.h.ud) > Len(ud) THEN Len(ud) + 1 ELSE 0, NullPtr)
                  EXCEPT !.ti = ti, !.nullread = r.nullread, !.released = r.released]
     /\ UNCHANGED inv

NextVal ==
  \/ \E ti \in ValTIs, transfer \in ValTransfers :
       \E val \in NativeVals(ti), ub \in UbOutcomes : ToLua(ti, transfer, val, ub)
  \/ \E w \in 1..Len(ud) : \E o \in OwnsReads(w) : Collect(w, o)
  \/ Resume

SpecVal == Init /\ [][NextVal]_vars

----------------------------------------------------------------------------
(* SpecArr: lgi_val_to_lua applied to the native arrays only, with no        *)
(* collection in between, while the earlier marshallings have left fewer     *)
(* than MaxElemWrappers userdata                                             *)

NextArr ==
  \/ /\ Len(ud) < MaxElemWrappers
     /\ \E ti \in {t \in ValTIs : t.tag = "array"}, transfer \in ValTransfers :
          \E val \in NativeVals(ti), ub \in UbOutcomes : ToLua(ti, transfer, val, ub)
  \/ Resume

SpecArr == Init /\ [][NextArr]_vars

----------------------------------------------------------------------------
(* SpecCall: function_call, one action per phase step.  The frame inv holds  *)
(* the locals of function_call and what the model remembers of the call:     *)
(*   pc        the phase the call is in, or how it ended                     *)
(*   largs     the Lua arguments, largs[k] at stack index k + 1              *)
(*   slots     slots[k + 1] is args[k].arg                                   *)
(*   pushed    the values pushed on the Lua stack above the arguments        *)
(*   trace     the phases entered, in order                                  *)
(*   exit      the phase an error or a stop left from                        *)
(*   nret, nout  what the native function returns and writes to an output    *)
(*   subst     positions where NULL replaced a Lua value that was no         *)
(*             acceptable wrapper, or a missing self                         *)
(*   unsup     whether a tag no marshaller supports was met                  *)
(*   hinv      the heap when the native function was invoked                 *)

\* number of compound userdata in a run of SpecCall
MaxCallWrappers == 2

NoErr == [set |-> FALSE, message |-> "", code |-> 0]
\* the GError a failing native function leaves
NativeErr == [set |-> TRUE, message |-> "bad", code |-> 7]
\* &err, the content of the trailing slot
ErrPtr == Ptr("err", "-", 0)
\* what the native function writes to an int32 output
NativeOut == IntVal(10)

Phases == <<"Prepare", "MarshalIn", "Invoke", "CheckError", "MarshalOut", "Done">>

argc(f) == Len(f.args)
argffi(f) == argc(f) + 1 + (IF f.method THEN 1 ELSE 0) + (IF f.throws THEN 1 ELSE 0)

\* the tags and interface kinds lgi_val_to_lua and lgi_val_from_lua convert
Supported(ti) ==
  \/ ti.tag \in ScalarTags
  \/ ti.tag = "array"
  \/ ti.tag = "interface" /\ Info(ti.iface).kind \in {"enum", "struct", "object"}

\* userdata one call can allocate: one per caller-allocated argument and one
\* per compound return value or output
FnAllocs(f) ==
  LET IsC(ti) == ti.tag = "interface" /\ ti.iface \in CompoundTypes
  IN (IF IsC(f.rti) THEN 1 ELSE 0)
     + Cardinality({k \in 1..argc(f) : f.args[k].calloc})
     + Cardinality({k \in 1..argc(f) : f.args[k].dir # "in" /\ IsC(f.args[k].ti)})

\* whether f takes an array from Lua
HasArrayInput(f) ==
  \E k \in 1..argc(f) : f.args[k].dir \in {"in", "inout"} /\ f.args[k].ti.tag = "array"

\* the Lua arguments a call of f is made with: self, then one per input; a
\* function that takes an array is also given a Lua sequence
LuaArgLists(f) ==
  LET n == (IF f.method THEN 1 ELSE 0)
           + Cardinality({k \in 1..argc(f) : f.args[k].dir \in {"in", "inout"}})
  IN [1..n -> ArgVals \cup (IF HasArrayInput(f) THEN {Table(<<Num(5)>>)} ELSE {})]

\* the Lua value at stack index idx of the call
LArg(largs, idx) == IF idx - 1 \in 1..Len(largs) THEN largs[idx - 1] ELSE Nil

\* the call leaves its phase by a Lua error
Raise(fr, msg, argpos) ==
  [fr EXCEPT !.pc = "Raised", !.raised = msg, !.argpos = argpos, !.exit = fr.pc]

\* the process stops in the call's phase
Crash(fr, why) == [fr EXCEPT !.pc = "Crashed", !.raised = why, !.exit = fr.pc]

CrashOutcome(why) == [NoOutcome EXCEPT !.op = "call", !.crash = why]

\* lines 988-1021
Prepare(name, largs, ub) ==
  LET f == Fn(name)
  IN /\ AtLua
     /\ inv.pc = "idle"
     /\ Len(ud) + FnAllocs(f) <= MaxCallWrappers
     /\ inv' = [pc |-> "MarshalIn", fn |-> name, largs |-> largs,
                slots |-> [k \in 1..argffi(f) |-> UninitPtr],
                self_pending |-> f.method, i |-> 0, lua_argi |-> 2, ffi_argi |-> 1,
                err |-> NoErr, ninvoke |-> 0, trace |-> <<"Prepare", "MarshalIn">>,
                pushed |-> <<>>, results |-> <<>>, raised |-> "", argpos |-> 0,
                exit |-> "", ub |-> ub, nret |-> UninitPtr, nout |-> NativeOut,
                subst |-> {}, unsup |-> FALSE, hinv |-> Heap, retdone |-> FALSE,
                nullread |-> FALSE]
     /\ UNCHANGED <<ud, cache, typeinfo, freelist, refs, native, ret>>

\* lines 1022-1032: self
MarshalInSelf ==
  /\ inv.pc = "MarshalIn"
  /\ inv.self_pending
  /\ \E r \in {compound_load(Heap, inv.lua_argi, LArg(inv.largs, inv.lua_argi),
                              Fn(inv.fn).container, TRUE, LoadUb(inv.ub))} :
     /\ IF r.crash # ""
          THEN inv' = Crash(inv, r.crash) /\ ret' = CrashOutcome(r.crash)
          ELSE /\ inv' = [inv EXCEPT !.slots[2] = r.addr, !.self_pending = FALSE,
                                     !.lua_argi = @ + 1, !.ffi_argi = @ + 1,
                                     !.subst = IF r.addr = NullPtr THEN @ \cup {1} ELSE @]
               /\ UNCHANGED ret
     /\ UNCHANGED <<ud, cache, typeinfo, freelist, refs, native>>

\* lines 1035-1053: one turn of the loop over the arguments; p is what the
\* unset slot of a caller-allocated argument reads as
MarshalInArg(p) ==
  LET f == Fn(inv.fn)
      a == f.args[inv.i + 1]
      pos == inv.ffi_argi + 1
      v == LArg(inv.largs, inv.lua_argi)
      step == [inv EXCEPT !.i = @ + 1, !.ffi_argi = @ + 1]
  IN /\ inv.pc = "MarshalIn"
     /\ ~inv.self_pending
     /\ inv.i < argc(f)
     /\ IF a.dir \in {"in", "inout"}
          THEN /\ p = NullPtr
               /\ \E r \in {lgi_val_from_lua(Heap, inv.lua_argi, v, a.ti, a.opt, inv.ub)} :
                  IF r.crash # ""
                    THEN inv' = Crash(inv, r.crash) /\ ret' = CrashOutcome(r.crash)
                  ELSE IF r.raised # ""
                    THEN inv' = Raise(inv, r.raised, r.argpos) /\ UNCHANGED ret
                  ELSE /\ inv' = [step EXCEPT
                                    !.slots[pos] = IF r.set THEN r.slot ELSE @,
                                    !.lua_argi = @ + r.vals,
                                    !.unsup = @ \/ ~Supported(a.ti),
                                    !.subst = IF r.set /\ r.slot = NullPtr /\ v.t # "nil"
                                                THEN @ \cup {inv.ffi_argi} ELSE @]
                       /\ UNCHANGED ret
               /\ UNCHANGED <<ud, cache, typeinfo, freelist, refs, native>>
        ELSE IF a.calloc
          THEN /\ p \in UnsetSlotPtrs(a.ti.iface)
               /\ \E n \in {lgi_type_new(Heap, a.ti.iface, p)} :
                    /\ SetHeap(n.h)
                    /\ IF n.raised # ""
                         THEN inv' = Raise(inv, n.raised, 0)
                         ELSE inv' = [step EXCEPT
                                        !.slots[pos] = n.addr,
                                        !.pushed = IF n.vals = 1 THEN Append(@, n.val) ELSE @]
               /\ UNCHANGED ret
        ELSE /\ p = NullPtr
             /\ inv' = step
             /\ UNCHANGED <<ud, cache, typeinfo, freelist, refs, native, ret>>

\* whether the native function is handed a slot it cannot use: an output
\* slot that holds no address of storage, or an input slot nobody wrote
WildArgs(fr) ==
  LET f == Fn(fr.fn)
      base == IF f.method THEN 2 ELSE 1
  IN \E k \in 1..argc(f) :
       \/ f.args[k].dir \in {"out", "inout"} /\ fr.slots[base + k].k # "data"
       \/ f.args[k].dir = "in" /\ fr.slots[base + k].k = "uninit"

\* what the native function can return
NativeRets(f) == IF f.rti = TVoid THEN {UninitPtr} ELSE NativeVals(f.rti)
\* the error it can leave
NativeErrs(f) == IF f.throws THEN {NoErr, NativeErr} ELSE {NoErr}

\* lines 1055-1061: the trailing error slot and ffi_call; the native function
\* returns nret and leaves err
Invoke(nret, err) ==
  LET f == Fn(inv.fn)
      fr == [inv EXCEPT !.slots[inv.ffi_argi + 1] = IF f.throws THEN ErrPtr ELSE @,
                        !.ninvoke = @ + 1,
                        !.trace = Append(@, "Invoke"),
                        !.pc = "Invoke",
                        !.hinv = Heap]
  IN /\ inv.pc = "MarshalIn"
     /\ ~inv.self_pending
     /\ inv.i = argc(f)
     /\ IF WildArgs(fr) /\ inv.ub.deref = "crash"
          THEN /\ nret = UninitPtr /\ err = NoErr
               /\ inv' = Crash(fr, "the native function uses an unset argument slot")
               /\ ret' = CrashOutcome("the native function uses an unset argument slot")
          ELSE /\ nret \in NativeRets(f)
               /\ err \in NativeErrs(f)
               /\ inv' = [fr EXCEPT !.slots[1] = nret, !.nret = nret, !.err = err,
                                    !.pc = "CheckError",
                                    !.trace = Append(@, "CheckError")]
               /\ UNCHANGED ret
     /\ UNCHANGED <<ud, cache, typeinfo, freelist, refs, native>>

\* lines 1063-1070
CheckError ==
  /\ inv.pc = "CheckError"
  /\ IF inv.err.set
       THEN inv' = [inv EXCEPT !.pc = "Failed", !.exit = "CheckError",
                               !.pushed = @ \o lgi_error(inv.err),
                               !.results = lgi_error(inv.err)]
       ELSE inv' = [inv EXCEPT !.pc = "MarshalOut", !.trace = Append(@, "MarshalOut"),
                               !.lua_argi = 0, !.i = 0,
                               !.ffi_argi = IF Fn(inv.fn).method THEN 2 ELSE 1]
  /\ UNCHANGED <<ud, cache, typeinfo, freelist, refs, native, ret>>

\* one lgi_val_to_lua of MarshalOut, of slot v of type ti
MarshalOutStep(fr, ti, transfer, v) ==
  \E r \in {lgi_val_to_lua(Heap, ti, transfer, v, inv.ub)} :
     /\ SetHeap(r.h)
     /\ IF r.crash # ""
          THEN /\ inv' = [Crash(fr, r.crash) EXCEPT !.nullread = r.nullread]
               /\ ret' = CrashOutcome(r.crash)
        ELSE IF r.raised # ""
          THEN inv' = Raise(fr, r.raised, 0) /\ UNCHANGED ret
        ELSE /\ inv' = [fr EXCEPT !.lua_argi = @ + r.vals,
                                  !.pushed = IF r.vals = 1 THEN Append(@, r.val) ELSE @,
                                  !.unsup = @ \/ (~Supported(ti) /\ ti # TVoid),
                                  !.nullread = @ \/ r.nullread]
             /\ UNCHANGED ret

\* lines 1072-1076: the return value
MarshalOutRet ==
  LET f == Fn(inv.fn)
  IN /\ inv.pc = "MarshalOut"
     /\ ~inv.retdone
     /\ MarshalOutStep([inv EXCEPT !.retdone = TRUE], f.rti, f.caller_owns, inv.slots[1])

\* lines 1078-1087: one turn of the loop over the arguments
MarshalOutArg ==
  LET f == Fn(inv.fn)
      a == f.args[inv.i + 1]
      step == [inv EXCEPT !.i = @ + 1, !.ffi_argi = @ + 1]
  IN /\ inv.pc = "MarshalOut"
     /\ inv.retdone
     /\ inv.i < argc(f)
     /\ IF a.dir \in {"out", "inout"}
          THEN MarshalOutStep(step, a.ti, a.transfer, inv.slots[inv.ffi_argi + 1])
          ELSE /\ inv' = step
               /\ UNCHANGED <<ud, cache, typeinfo, freelist, refs, native, ret>>

\* the last n values of a stack
Top(stack, n) == SubSeq(stack, Len(stack) - n + 1, Len(stack))

\* line 1089: return lua_argi
Done ==
  /\ inv.pc = "MarshalOut"
  /\ inv.retdone
  /\ inv.i = argc(Fn(inv.fn))
  /\ inv' = [inv EXCEPT !.pc = "Done", !.trace = Append(@, "Done"),
                        !.results = Top(inv.pushed, inv.lua_argi)]
  /\ UNCHANGED <<ud, cache, typeinfo, freelist, refs, native, ret>>

\* the Lua program takes the results or the error of the call and goes on
Return ==
  /\ inv.pc \in {"Done", "Failed", "Raised"}
  /\ inv' = IdleFrame
  /\ UNCHANGED <<ud, cache, typeinfo, freelist, refs, native, ret>>

\* what the native functions of the model can return

NextCall ==
  \/ \E name \in FnNames, ub \in UbOutcomes :
       \E largs \in LuaArgLists(Fn(name)) : Prepare(name, largs, ub)
  \/ MarshalInSelf
  \/ \E p \in {NullPtr} \cup {UdPtr(w) : w \in 1..Len(ud)} : MarshalInArg(p)
  \/ \E nret \in UNION {NativeRets(Fn(name)) : name \in FnNames}, err \in {NoErr, NativeErr} : Invoke(nret, err)
  \/ CheckError
  \/ MarshalOutRet
  \/ MarshalOutArg
  \/ Done
  \/ Return

SpecCall == Init /\ [][NextCall]_vars

----------------------------------------------------------------------------
(* SpecOut: the calls of the callables with a caller-allocated output, and   *)
(* the collection of the userdata the Lua program holds no more              *)

NextOut ==
  \/ \E name \in {"Fill", "FillOwn", "FillRec"}, ub \in UbOutcomes : Prepare(name, <<>>, ub)
  \/ \E p \in {NullPtr} \cup {UdPtr(w) : w \in 1..Len(ud)} : MarshalInArg(p)
  \/ \E nret \in {UninitPtr, IntVal(0), IntVal(5)} : Invoke(nret, NoErr)
  \/ CheckError
  \/ MarshalOutRet
  \/ MarshalOutArg
  \/ Done
  \/ Return
  \/ \E w \in 1..Len(ud) : \E o \in OwnsReads(w) : Collect(w, o)
  \/ Resume

SpecOut == Init /\ [][NextOut]_vars

----------------------------------------------------------------------------
(* Element access: compound_index and compound_newindex                      *)

\* descriptors of elements (GIFieldInfo, GIPropertyInfo and other GIBaseInfo):
\*   info    g_base_info_get_type: "field", "property", or another kind
\*   name    g_base_info_get_name
\*   offset  g_field_info_get_offset, in bytes
\*   ti      g_field_info_get_type / g_property_info_get_type
\*   flags   the access flags: "r" readable, "w" writable
BaseInfo(info, name, offset, ti, flags) ==
  [info |-> info, name |-> name, offset |-> offset, ti |-> ti, flags |-> flags]

\* the values a repo table holds under an element name: nothing, a Lua value that
\* is no descriptor (a method), or a wrapper of a GIRepository.IBaseInfo
NoElement == [t |-> "nil", bi |-> BaseInfo("-", "", 0, TVoid, {})]
MethodElement == [t |-> "function", bi |-> BaseInfo("-", "", 0, TVoid, {})]
InfoElement(bi) == [t |-> "baseinfo", bi |-> bi]

ElemNames == {"rw", "ro", "wo", "rwp", "rop", "wop", "meth", "cst", "nope"}

\* lines 890-892: repo[namespace][type][name]
RepoElement(type, name) ==
  IF type = "Pod" /\ name = "rw"
    THEN InfoElement(BaseInfo("field", name, 0, TScalar("int32"), {"r", "w"}))
  ELSE IF type = "Pod" /\ name = "ro"
    THEN InfoElement(BaseInfo("field", name, 4, TScalar("int32"), {"r"}))
  ELSE IF type = "Pod" /\ name = "wo"
    THEN InfoElement(BaseInfo("field", name, 8, TScalar("int32"), {"w"}))
  ELSE IF type = "Pod" /\ name = "cst"
    THEN InfoElement(BaseInfo("constant", name, 0, TScalar("int32"), {}))
  ELSE IF type \in {"Sub", "Leaf"} /\ name = "rwp"
    THEN InfoElement(BaseInfo("property", name, 0, TScalar("int32"), {"r", "w"}))
  ELSE IF type = "Sub" /\ name = "rop"
    THEN InfoElement(BaseInfo("property", name, 0, TScalar("int32"), {"r"}))
  ELSE IF type = "Sub" /\ name = "wop"
    THEN InfoElement(BaseInfo("property", name, 0, TScalar("int32"), {"w"}))
  ELSE IF type = "Sub" /\ name = "obp"
    THEN InfoElement(BaseInfo("property", name, 0, TIface("Sub"), {"r"}))
  ELSE IF type \in {"Pod", "Sub"} /\ name = "meth" THEN MethodElement
  ELSE NoElement

\* what an element access leaves: the heap, the number of values returned and
\* the value, the Lua error raised and the argument position it names, why
\* the process stopped, the repo hook called (with its arguments) and the
\* property accessor called
ElemRes(h, vals, val, raised, argpos, crash, hook, accessor) ==
  [h |-> h, vals |-> vals, val |-> val, raised |-> raised, argpos |-> argpos,
   crash |-> crash, hook |-> hook, accessor |-> accessor]

\* (flags & GI_FIELD_IS_READABLE) != 0, (flags & G_PARAM_READABLE) != 0
IsReadable_Always(flags) == TRUE
IsReadable(flags) == "r" \in flags
\* (flags & GI_FIELD_IS_WRITABLE) != 0, (flags & G_PARAM_WRITABLE) != 0
IsWritable(flags) == "w" \in flags

\* G_STRUCT_MEMBER_P(addr, offset): the slot of the field
FieldSlot(fi) == fi.offset \div 4 + 1

\* line 825, r being what lgi_val_to_lua left
FieldRead(r) == ElemRes(r.h, r.vals, r.val, r.raised, 0, r.crash, <<>>, "")

\* line 835, r being what lgi_val_from_lua left: the field is written when
\* the marshaller set the slot
FieldWrite(h, addr, fi, r) ==
  IF r.raised # "" \/ r.crash # ""
    THEN ElemRes(h, 0, Nil, r.raised, r.argpos, r.crash, <<>>, "")
    ELSE ElemRes(IF r.set THEN [h EXCEPT !.native[addr].f[FieldSlot(fi)] = r.slot] ELSE h,
                 r.vals, Nil, "", 0, "", <<>>, "")

\* compound_element_field(L, addr, fi, newval); newval is -1 for a read, else
\* the stack index of the new value v
compound_element_field(h, addr, fi, newval, v, ub) ==
  IF newval = -1
    THEN IF ~IsReadable(fi.flags)
           THEN ElemRes(h, 0, Nil, "argerror: not readable", 2, "", <<>>, "")
           ELSE FieldRead(lgi_val_to_lua(h, fi.ti, "none", h.native[addr].f[FieldSlot(fi)], ub))
    ELSE IF ~IsWritable(fi.flags)
           THEN ElemRes(h, 0, Nil, "argerror: not writable", 2, "", <<>>, "")
           ELSE FieldWrite(h, addr, fi, lgi_val_from_lua(h, newval, v, fi.ti, FALSE, ub))

\* value_init(L, &val, ti): the error it raises ("": none)
value_init(ti) ==
  IF ti.tag \in ScalarTags THEN ""
  ELSE IF ti.tag = "interface"
    THEN IF Info(ti.iface).kind \in {"enum", "object"} THEN ""
         ELSE "value_init: bad ti.iface.type"
  ELSE "value_init: bad ti.tag"

\* lines 873-874, r being what check(L, 3) of value_load left:
\* g_object_set_property with the value
PropertyWrite(h, addr, pi, r) ==
  IF r.raised # ""
    THEN ElemRes(h, 0, Nil, r.raised, r.argpos, "", <<>>, "")
    ELSE ElemRes([h EXCEPT !.native[addr].p[pi.name] = r.slot], 1, Nil, "", 0, "", <<>>, "set")

\* compound_element_property(L, addr, pi, newval), for a property of a scalar
\* type or of an object type.  value_store of an object (lines 469-474):
\* g_value_dup_object takes a reference, which compound_store is given with
\* transfer everything; the reference the GValue itself holds is dropped by
\* g_value_unset (line 877)
compound_element_property(h, addr, pi, newval, v, ub) ==
  IF value_init(pi.ti) # ""
    THEN ElemRes(h, 0, Nil, value_init(pi.ti), 0, "", <<>>, "")
  ELSE IF newval = -1
    THEN IF ~IsReadable(pi.flags)
           THEN ElemRes(h, 0, Nil, "argerror: not readable", 2, "", <<>>, "")
         ELSE IF pi.ti.tag = "interface"
           THEN LET r == compound_store(h, pi.ti.iface, h.native[addr].p[pi.name],
                                        "everything")
                IN ElemRes(r.h, r.vals, r.val, r.raised, 0, "", <<>>, "get")
         ELSE ElemRes(h, 1, push(pi.ti.tag, SlotBits(h.native[addr].p[pi.name], ub.garbage)),
                      "", 0, "", <<>>, "get")
    ELSE IF ~IsWritable(pi.flags)
           THEN ElemRes(h, 0, Nil, "argerror: not writable", 2, "", <<>>, "")
           ELSE PropertyWrite(h, addr, pi, check(pi.ti.tag, 3, v))

\* compound_error(L, errmsg, element) on the Lua stack `stack`:
\* lua_rawgeti(L, -2, 0), lua_getfield(L, -1, "name") and luaL_error with the
\* name of the type and of the element (the message without its quotes)
compound_error(h, stack, errmsg, element) ==
  LET tbl == stack[Len(stack) - 1]
      t0 == IF tbl.t = "typeinfotab" THEN TypeinfoGet(h, 0)
            ELSE IF tbl.t = "repotab" THEN Repo0Tab(tbl.s)
            ELSE Nil
  IN IF t0.t # "repo0tab"
       THEN ElemRes(h, 0, Nil, "attempt to index a " \o t0.t \o " value", 0, "", <<>>, "")
       ELSE ElemRes(h, 0, Nil, t0.s \o errmsg \o element, 0, "", <<>>, "")

\* lines 896-905: the element is not in the repo table; m is what
\* compound_callmeta left for the stack `stack`, and "from hook" what the
\* index hook of a type returns
ElementMissing(h, stack, metaname, nargs, vals, element, m) ==
  IF m.raised # "" THEN ElemRes(h, 0, Nil, m.raised, 0, "", <<>>, "")
  ELSE IF m.called
    THEN ElemRes(m.h, vals, IF vals = 1 THEN Str("from hook") ELSE Nil, "", 0, "",
                 <<Str(metaname)>> \o Top(stack, nargs), "")
  ELSE compound_error(h, SubSeq(stack, 1, Len(stack) - nargs) \o [k \in 1..vals |-> Nil],
                      ": no ", element)

\* compound_element(L, newval) for the userdata w at index 1, the element
\* name at index 2 and, for a write, the value v at index newval
compound_element(h, w, element, newval, v, ub) ==
  LET rt == compound_prepare(h, w)
      el == RepoElement(rt.s, element)
      vals == IF newval = -1 THEN 1 ELSE 0
      metaname == IF newval = -1 THEN "index" ELSE "newindex"
      stack == <<TypeinfoTab, rt, Udata(w), Str(element)>>
               \o (IF newval # -1 THEN <<v>> ELSE <<>>)
  IN IF rt.t # "repotab"
       THEN ElemRes(h, 0, Nil, "", 0, "g_assert(!lua_isnil(L, -1))", <<>>, "")
     ELSE IF el.t = "nil"
       THEN ElementMissing(h, stack, metaname, 3 - vals, vals, element,
                           compound_callmeta(h, stack, metaname, 3 - vals))
     ELSE IF el.t = "baseinfo"   \* line 911: compound_load(L, -1, lgi_baseinfo_info, TRUE)
       THEN IF el.bi.info = "field"
              THEN compound_element_field(h, h.ud[w].addr, el.bi, newval, v, ub)
            ELSE IF el.bi.info = "property"
              THEN compound_element_property(h, h.ud[w].addr, el.bi, newval, v, ub)
            ELSE ElemRes(h, 0, Nil, "", 0, "", <<>>, "")
     ELSE IF newval # -1
       THEN compound_error(h, <<TypeinfoTab, rt>>, ": not writable ", element)
     ELSE ElemRes(h, 1, LuaVal(el.t, 0, element, <<>>), "", 0, "", <<>>, "")

\* the outcome of an element access of userdata w
ElemOutcome(op, w, element, v, r) ==
  [Outcome(op, ud[w].type, ud[w].addr, "", Udata(w), FALSE, r.vals, r.val, r.raised,
           r.crash, 0, NullPtr)
     EXCEPT !.argpos = r.argpos, !.elem = element, !.nv = v, !.hook = r.hook,
            !.accessor = r.accessor, !.pre = native]

\* compound_index: userdata[element]
Index(w, element, ub) ==
  /\ AtLua
  /\ inv.pc = "idle"
  /\ Reachable(w)
  /\ \E r \in {compound_element(Heap, w, element, -1, Nil, ub)} :
       /\ Len(r.h.ud) <= MaxWrappers
       /\ SetHeap(r.h)
       /\ ret' = ElemOutcome("index", w, element, Nil, r)
  /\ UNCHANGED inv

\* compound_newindex: userdata[element] = v
NewIndex(w, element, v) ==
  /\ AtLua
  /\ inv.pc = "idle"
  /\ Reachable(w)
  /\ \E r \in {compound_element(Heap, w, element, 3, v, [garbage |-> 0, deref |-> "read"])} :
       /\ SetHeap(r.h)
       /\ ret' = ElemOutcome("newindex", w, element, v, r)
  /\ UNCHANGED inv

\* the wrappers SpecElem accesses: a struct with fields, made from a native
\* instance it owns or constructed inline, and objects with properties
StoreForElem(info, addr, transfer) ==
  /\ Len(ud) < MaxElemWrappers
  /\ \/ info = "Pod" /\ transfer \in {"everything", "container"}
     \/ info \in {"Sub", "Leaf"} /\ transfer \in {"none", "everything"} /\ addr # NullPtr
  /\ Store(info, addr, transfer)

\* what unset field bytes read as

NextElem ==
  \/ \E info \in {"Pod", "Sub", "Leaf"}, transfer \in Transfers :
       \E addr \in StoreAddrs(info, transfer) : StoreForElem(info, addr, transfer)
  \/ \E w \in 1..Len(ud), element \in ElemNames, ub \in {u \in UbOutcomes : u.deref = "read"} :
       Index(w, element, ub)
  \/ \E w \in 1..Len(ud), element \in ElemNames, v \in {Nil, Num(5)} : NewIndex(w, element, v)
  \/ \E w \in 1..Len(ud) : \E o \in OwnsReads(w) : Collect(w, o)
  \/ Resume

SpecElem == Init /\ [][NextElem]_vars

----------------------------------------------------------------------------
(* SpecRef: the stores, the reads of the property of object type and the     *)
(* finalizations of object wrappers                                          *)

NextRef ==
  \/ \E info \in {"Sub", "Unr"}, transfer \in {"none", "everything"} :
       \E addr \in StoreAddrs(info, transfer) : Store(info, addr, transfer)
  \/ \E w \in 1..Len(ud) : Index(w, "obp", [garbage |-> 0, deref |-> "read"])
  \/ \E w \in 1..Len(ud) : \E o \in OwnsReads(w) : Collect(w, o)
  \/ Resume

SpecRef == Init /\ [][NextRef]_vars

----------------------------------------------------------------------------
(* Claims about the compound manager (checked under Spec) *)

Wrappers == 1..Len(ud)

\* C1: identity preservation.  For every non-null native address a, at most
\* one live wrapper has wrapper.addr = a: a second compound_store for a,
\* with the first wrapper not collected in between, returns the first
\* wrapper instead of allocating another one.
C1_OneLiveWrapperPerAddress ==
  \A w1, w2 \in Wrappers :
    (/\ ud[w1].live /\ ud[w2].live
     /\ ud[w1].addr.k = "native"
     /\ ud[w1].addr = ud[w2].addr) => w1 = w2

\* C2: ownership symmetry, owning side.  A wrapper that compound_store
\* created with transfer = everything has released nothing while it is live,
\* and once finalized has released its native resource exactly once: one
\* g_object_unref for an object, one call of the dispose hook for a struct
\* whose type declares it (none when it declares none).
C2_ReleasedBy(w) ==
  IF ud[w].live THEN ud[w].unrefs = 0 /\ ud[w].disposed = 0
  ELSE IF Info(ud[w].type).kind = "object" THEN ud[w].unrefs = 1 /\ ud[w].disposed = 0
  ELSE /\ ud[w].unrefs = 0
       /\ ud[w].disposed = (IF "dispose" \in Info(ud[w].type).hooks THEN 1 ELSE 0)

C2_OwnerReleasesExactlyOnce ==
  \A w \in Wrappers : ud[w].tr = "everything" => C2_ReleasedBy(w)

\* C2's case: an owning object wrapper and an owning struct wrapper with a
\* dispose hook have both been finalized
C2_Witness ==
  \E w1, w2 \in Wrappers :
    /\ ~ud[w1].live /\ ud[w1].tr = "everything" /\ ud[w1].type = "Sub" /\ ud[w1].unrefs = 1
    /\ ~ud[w2].live /\ ud[w2].tr = "everything" /\ ud[w2].type = "Pod" /\ ud[w2].disposed = 1

\* C3: ownership symmetry, non-owning side.  A wrapper that compound_store
\* created with transfer = none for a type that is no object and declares no
\* acquire hook has owns = false while it lives, and neither the dispose hook
\* is called for it nor a native reference dropped, finalized or not.
C3_NonOwnerNeverReleases ==
  \A w \in Wrappers :
    (/\ ud[w].tr = "none"
     /\ Info(ud[w].type).kind # "object"
     /\ "acquire" \notin Info(ud[w].type).hooks)
    => /\ ud[w].live => ud[w].owns = "no"
       /\ ud[w].unrefs = 0
       /\ ud[w].disposed = 0

----------------------------------------------------------------------------
(* Claims about the value marshaller (checked under SpecVal) *)

\* C4: null round-trip.  Marshalling a null native address to Lua with
\* transfer other than container, for an array of either kind and for a
\* struct or object, completes with exactly one value, nil: no table, no
\* new wrapper, and no read through the null address.
C4_NullYieldsNil ==
  (/\ ret.op = "to_lua"
   /\ IsNull(ret.ptr)
   /\ ret.tr # "container"
   /\ \/ ret.ti.tag = "array"
      \/ ret.ti.tag = "interface" /\ ret.ti.iface \in CompoundTypes)
  => /\ ret.vals = 1
     /\ ret.val = Nil
     /\ ret.raised = ""
     /\ ret.crash = ""
     /\ ret.w = 0
     /\ ~ret.nullread

----------------------------------------------------------------------------
(* Claims about compound_load (checked under SpecLoad) *)

\* C5: ancestry check.  compound_load with optional = false of a wrapper
\* whose type is T, requesting type A (the root of the object hierarchy
\* included), returns the wrapper's address when T is A or derives from A,
\* and raises an argument error when T neither is nor derives from A.
C5_AncestryCheck ==
  (/\ ret.op = "load"
   /\ ~ret.opt
   /\ ret.arg.t = "userdata")
  => IF IsA(ud[ret.arg.v].type, ret.info)
       THEN ret.raised = "" /\ ret.crash = "" /\ ret.out = ud[ret.arg.v].addr
       ELSE ret.raised = "argerror" /\ ret.crash = ""

----------------------------------------------------------------------------
(* Claims about function_call (checked under SpecCall) *)

\* what the native function left for the return value (k = 0) or for
\* argument k: the value it returned, the storage the caller allocated, or
\* the value it wrote to the output
NativeResult(fr, k) ==
  IF k = 0 THEN fr.nret
  ELSE IF Fn(fr.fn).args[k].calloc
    THEN fr.slots[k + 1 + (IF Fn(fr.fn).method THEN 1 ELSE 0)]
  ELSE fr.nout

\* the type of the return value (k = 0) or of argument k
ResultType(fr, k) == IF k = 0 THEN Fn(fr.fn).rti ELSE Fn(fr.fn).args[k].ti

\* the return value and the out and inout arguments that marshal to one
\* value, in declaration order, return first
RECURSIVE ResultSlots(_, _)
ResultSlots(fr, k) ==
  IF k > argc(Fn(fr.fn)) THEN <<>>
  ELSE (IF /\ k = 0 \/ Fn(fr.fn).args[k].dir \in {"out", "inout"}
           /\ Supported(ResultType(fr, k))
          THEN <<k>> ELSE <<>>) \o ResultSlots(fr, k + 1)

\* whether the Lua value v is native value nat of type ti, marshalled
IsMarshalled(v, ti, nat) ==
  IF ti.tag \in ScalarTags THEN v = push(ti.tag, nat.n)
  ELSE IF ti.tag = "interface" /\ Info(ti.iface).kind = "enum" THEN v = Num(nat.n)
  ELSE IF nat = NullPtr THEN v = Nil
  ELSE IF ti.tag = "array"
    THEN v = Table([e \in 1..Len(nat.mem) |-> push(ti.param[1].tag, nat.mem[e].n)])
  ELSE v.t = "userdata" /\ ud[v.v].addr = nat

\* C6: call result shape on success.  When the native call left the error
\* slot empty and the call is done, its results are the marshalled return
\* value first, then the marshalled value of each out or inout argument in
\* declaration order; their number is the number function_call returns, and
\* input-only arguments contribute none: (in int32, out int32) -> boolean
\* with native result (true, 10) yields [true, 10].
C6_ResultShape ==
  inv.pc = "Done" =>
    LET exp == ResultSlots(inv, 0)
    IN /\ ~inv.err.set
       /\ Len(inv.results) = inv.lua_argi
       /\ Len(inv.results) = Len(exp)
       /\ \A k \in 1..Len(exp) :
            IsMarshalled(inv.results[k], ResultType(inv, exp[k]), NativeResult(inv, exp[k]))

\* C7: a native failure is a value.  When the trailing error slot is
\* populated after the native call, the call returns (false, message, code),
\* raises nothing, and marshals neither the return slot nor an output slot:
\* MarshalOut is not entered and no wrapper, cache entry or reference is made
\* after the native call.
C7_FailureIsValue ==
  inv.pc = "Failed" =>
    /\ inv.err.set
    /\ inv.results = <<Bool(FALSE), Str(inv.err.message), Num(inv.err.code)>>
    /\ inv.raised = ""
    /\ inv.exit = "CheckError"
    /\ inv.trace = <<"Prepare", "MarshalIn", "Invoke", "CheckError">>
    /\ Heap = inv.hinv

\* C7's case: the failing native call of (in int32, out int32) -> boolean,
\* throws, has returned (false, "bad", 7)
C7_Witness ==
  /\ inv.pc = "Failed"
  /\ inv.fn = "Shape"
  /\ inv.ninvoke = 1
  /\ inv.results = <<Bool(FALSE), Str("bad"), Num(7)>>

IsPrefix(s, t) == Len(s) <= Len(t) /\ SubSeq(t, 1, Len(s)) = s

\* C8: phase ordering.  Every invocation passes through Prepare, MarshalIn,
\* Invoke, CheckError, MarshalOut, Done in that order and ends at Done or at
\* an error exit from MarshalIn or CheckError; the native function is invoked
\* at most once, never after MarshalIn exited with an error, and MarshalOut
\* never runs before Invoke.
C8_PhaseOrder ==
  inv.pc # "idle" =>
    /\ IsPrefix(inv.trace, Phases)
    /\ inv.ninvoke <= 1
    /\ inv.exit = "MarshalIn" => inv.ninvoke = 0
    /\ inv.pc = "Done" => inv.trace = Phases
    /\ inv.pc \in {"Failed", "Raised"} => inv.exit \in {"MarshalIn", "CheckError"}

\* C9: encoding errors abort the call.  A call that met a type descriptor
\* whose tag the marshaller does not support, for an input in MarshalIn or
\* for the return value or an output in MarshalOut, does not go on to invoke
\* the native function and does not complete: it ends by a raised error.
C9_UnsupportedTagRaises ==
  (inv.pc # "idle" /\ inv.unsup) => inv.pc \notin {"Invoke", "CheckError", "Done", "Failed"}

\* C10: argument errors are raised positionally.  The native function is
\* never invoked with NULL in place of a Lua value of the wrong type or
\* shape, or of a missing required value: such a value exits the call from
\* MarshalIn by an argument error.
C10_NoSubstitutedArgument ==
  (inv.pc # "idle" /\ inv.ninvoke > 0) => inv.subst = {}

----------------------------------------------------------------------------
(* Claims about element access (checked under SpecElem) *)

\* the descriptor the accessed element name resolves to on the wrapper's type
AccessedElement == RepoElement(ret.info, ret.elem)

\* the field slot an access is about, in the memory the access began with
AccessedSlot == ret.pre[ret.ptr].f[AccessedElement.bi.offset \div 4 + 1]

\* C11: access-flag errors leave state unchanged.  Reading a field or
\* property whose descriptor is not readable, or writing one whose descriptor
\* is not writable, raises an error, leaves the native field bytes and
\* property values as they were and calls no property accessor; a read of a
\* readable field returns what is at the field's byte offset from the
\* wrapper's address, and a write of a writable field changes the bytes at
\* that offset and nothing else.
C11_AccessFlags ==
  (/\ ret.op \in {"index", "newindex"}
   /\ AccessedElement.t = "baseinfo"
   /\ AccessedElement.bi.info \in {"field", "property"})
  => LET bi == AccessedElement.bi
         allowed == IF ret.op = "index" THEN "r" \in bi.flags ELSE "w" \in bi.flags
     IN /\ ~allowed => /\ ret.raised # ""
                       /\ native = ret.pre
                       /\ ret.accessor = ""
        /\ ret.raised # "" => native = ret.pre /\ ret.accessor = ""
        /\ (allowed /\ bi.info = "field" /\ ret.op = "index")
             => /\ ret.raised = "" /\ ret.crash = ""
                /\ native = ret.pre
                /\ ret.vals = 1
                /\ AccessedSlot.k = "int" => ret.val = Num(AccessedSlot.n)
        /\ (allowed /\ bi.info = "field" /\ ret.op = "newindex" /\ ret.raised = "")
             => native = [ret.pre EXCEPT ![ret.ptr].f[bi.offset \div 4 + 1] = IntVal(ret.nv.v)]

\* C11's case: a write to a field that is not writable, of a struct at a
\* native address, has raised
C11_Witness ==
  /\ ret.op = "newindex"
  /\ ret.elem = "ro"
  /\ ret.nv = Num(5)
  /\ ret.ptr.k = "native"
  /\ ret.raised = "argerror: not writable"

\* C12: missing-element fallback.  A read or a write of an element name the
\* wrapper's type does not have calls the index (resp. newindex) hook of the
\* type when the type declares it, with the wrapper, the element name and,
\* for a write, the new value; when the type declares no such hook the access
\* raises an error that names the compound's type and the missing element.
C12_MissingElementFallback ==
  (/\ ret.op \in {"index", "newindex"}
   /\ AccessedElement.t = "nil")
  => IF ret.op \in Info(ret.info).hooks
       THEN /\ ret.raised = ""
            /\ ret.hook = <<Str(ret.op), ret.arg, Str(ret.elem)>>
                          \o (IF ret.op = "newindex" THEN <<ret.nv>> ELSE <<>>)
       ELSE /\ ret.hook = <<>>
            /\ ret.raised = ret.info \o ": no " \o ret.elem

----------------------------------------------------------------------------
(* Claims about the array marshaller (checked under SpecArr and SpecVal) *)

\* the Lua values of the native elements elems of scalar type eti
ElemsMarshalled(eti, elems) == [i \in 1..Len(elems) |-> push(eti.tag, elems[i].n)]

\* C13: array round-trip.  Marshalling a fixed-size native array of n
\* scalar elements to Lua, for every n >= 0 and with elements of value zero
\* among them, yields one table that is a sequence of exactly n values, the
\* i-th being the i-th native element.
C13_ArrayRoundTrip ==
  (/\ ret.op = "to_lua"
   /\ ret.ti.tag = "array" /\ ret.ti.atype = "c"
   /\ ret.ti.fixed >= 0 /\ ~ret.ti.zt
   /\ ret.ti.param[1].tag \in ScalarTags
   /\ ret.ptr.k = "array")
  => /\ ret.raised = "" /\ ret.crash = ""
     /\ ret.vals = 1
     /\ Len(ret.ptr.mem) = ret.ti.fixed
     /\ ret.val = Table(ElemsMarshalled(ret.ti.param[1], ret.ptr.mem))

\* C13's case: the fixed-size array of the two int32 elements 0 and 5 has
\* been marshalled to the sequence 0, 5
C13_Witness ==
  /\ ret.op = "to_lua"
  /\ ret.ti = TArray("c", 2, FALSE, TScalar("int32"))
  /\ ret.ptr = ArrPtr("c", <<IntVal(0), IntVal(5)>>)
  /\ ret.val = Table(<<Num(0), Num(5)>>)

\* the number of elements of mem that precede its first null element
RECURSIVE BeforeNull(_, _, _)
BeforeNull(mem, eti, i) ==
  IF i > Len(mem) \/ mem[i] = Terminator(eti) THEN i - 1 ELSE BeforeNull(mem, eti, i + 1)

\* C14: zero-terminated truncation.  Marshalling a zero-terminated native
\* array yields exactly the elements that precede its first null element, in
\* order, without the null element and without what follows it: the elements
\* v0, v1, NULL, v3 yield the sequence v0, v1.
C14_ZeroTerminatedTruncation ==
  (/\ ret.op = "to_lua"
   /\ ret.ti.tag = "array" /\ ret.ti.atype = "c" /\ ret.ti.zt
   /\ ret.ptr.k = "array")
  => LET eti == ret.ti.param[1]
         n == BeforeNull(ret.ptr.mem, eti, 1)
     IN /\ ret.raised = "" /\ ret.crash = ""
        /\ ret.vals = 1
        /\ ret.val.t = "table"
        /\ Len(ret.val.e) = n
        /\ \A i \in 1..n : IsMarshalled(ret.val.e[i], eti, ret.ptr.mem[i])

\* C17: run to completion.  Marshalling a native array to a sequence ends
\* for every array descriptor, a plain C array without fixed size and without
\* zero termination included, and for a zero-terminated array it ends at the
\* first null element: the loop over the elements never leaves the memory of
\* the array and never turns without end.
C17_ArrayMarshallingTerminates ==
  (/\ ret.op = "to_lua"
   /\ ret.ti.tag = "array"
   /\ ret.ptr.k = "array")
  => ret.crash = ""

----------------------------------------------------------------------------
(* Further claims about function_call (checked under SpecCall) *)

\* C15: marshalling an array from Lua fails.  lgi_val_from_lua never succeeds
\* for an array type, so a call of a callable with an in or inout argument of
\* array type ends in MarshalIn by an error: the native function is not
\* invoked with the slot of that argument unset and with the arguments after
\* it read from shifted stack positions.
C15_ArrayInputFails ==
  (inv.pc # "idle" /\ HasArrayInput(Fn(inv.fn)))
  => /\ inv.ninvoke = 0
     /\ inv.pc \in {"MarshalIn", "Raised"}
     /\ inv.pc = "Raised" => inv.exit = "MarshalIn"
     /\ \A k \in 1..argc(Fn(inv.fn)) :
          (Fn(inv.fn).args[k].ti.tag = "array" /\ inv.i >= k) => inv.pc = "Raised"

----------------------------------------------------------------------------
(* Further claims about the compound manager (checked under Spec) *)

LiveWrappers == {w \in Wrappers : ud[w].live}

\* C16: weak cache after collection.  The cache holds no wrapper that was
\* collected and finalized and compound_store returns none, in every
\* interleaving of stores and collections; a store for a native address that
\* no live wrapper holds, the stores after the collection of its wrapper
\* among them, allocates a fresh wrapper and returns it.
C16_NoFinalizedWrapperReturned ==
  /\ \A e \in cache : ud[e[2]].live
  /\ (ret.op = "store" /\ ret.val.t = "userdata") => ud[ret.val.v].live
  /\ (/\ ret.op = "store" /\ ret.raised = ""
      /\ ret.ptr.k = "native"
      /\ ~\E w \in LiveWrappers : w # ret.w /\ ud[w].addr = ret.ptr)
     => /\ ret.w = Len(ud)
        /\ ret.val = Udata(ret.w)
        /\ ud[ret.w].addr = ret.ptr

\* C16's case: the wrapper of a native object was collected and finalized,
\* and a later store for the same type and address has returned a second
\* wrapper
C16_Witness ==
  /\ ret.op = "store" /\ ret.info = "Sub" /\ ret.tr = "everything"
  /\ ret.ptr = NativePtr("Sub", 1)
  /\ ret.w = 2 /\ ret.val = Udata(2)
  /\ ~ud[1].live /\ ud[1].type = "Sub" /\ ud[1].tr = "everything" /\ ud[1].unrefs = 1

\* C18: ownership upgrade on store with transfer = none.  When compound_store
\* creates a new wrapper with transfer = none, then (a) for an object one new
\* native reference is taken and the wrapper has owns = true; (b) for a
\* struct whose type declares an acquire hook the hook is called once, with
\* the new wrapper, and the wrapper has owns = true; (c) for a struct without
\* acquire hook the store succeeds and the wrapper has owns = false.
C18_OwnershipUpgrade ==
  (ret.op = "store" /\ ret.tr = "none" /\ ret.w # 0)
  => /\ ret.raised = ""
     /\ ret.val = Udata(ret.w)
     /\ IF Info(ret.info).kind = "object"
          THEN /\ ud[ret.w].owns = "yes"
               /\ refs[ret.ptr] = Cardinality({w \in LiveWrappers : ud[w].addr = ret.ptr})
        ELSE IF "acquire" \in Info(ret.info).hooks
          THEN ud[ret.w].owns = "yes" /\ ud[ret.w].acquired = 1
        ELSE ud[ret.w].owns = "no" /\ ud[ret.w].acquired = 0

\* the slots of the typeinfo table that hold an entry
TypeinfoEntries == {k \in 1..Len(typeinfo) : typeinfo[k].t = "repotab"}

\* C19: type-binding table bookkeeping.  In every reachable state the
\* typeinfo table holds exactly one entry per wrapper that was created and is
\* not finalized, the repo table of the wrapper's type: no entry is shared by
\* two live wrappers, finalization releases the entry whatever owns is, and
\* when every wrapper is finalized the table holds no entry.
C19_OneEntryPerLiveWrapper ==
  /\ \A w \in LiveWrappers :
       /\ ud[w].ref_repo \in TypeinfoEntries
       /\ typeinfo[ud[w].ref_repo].s = ud[w].type
  /\ \A w1, w2 \in LiveWrappers : ud[w1].ref_repo = ud[w2].ref_repo => w1 = w2
  /\ Cardinality(TypeinfoEntries) = Cardinality(LiveWrappers)

\* C20: container transfer constructs a fresh instance.  compound_store with
\* transfer = container allocates a new wrapper with inline storage, sets the
\* wrapper's address and the caller's address slot to that storage and leaves
\* owns = false, whatever the address slot held on entry; it never returns a
\* wrapper that existed before.
C20_ContainerConstructsFresh ==
  (ret.op = "store" /\ ret.tr = "container")
  => /\ ret.raised = ""
     /\ ret.w = Len(ud)
     /\ ret.val = Udata(ret.w)
     /\ ud[ret.w].inline
     /\ ud[ret.w].addr = DataPtr(ret.w)
     /\ ret.out = DataPtr(ret.w)
     /\ ud[ret.w].owns = "no"

----------------------------------------------------------------------------
(* Claims about the element count and the ownership of arrays (checked under *)
(* SpecArr and SpecVal)                                                      *)

\* a native array that is not null has been marshalled
ArrayMarshalled == ret.op = "to_lua" /\ ret.ti.tag = "array" /\ ret.ptr.k = "array"

\* C21: element-count priority as stated.  An array whose descriptor carries
\* the fixed size n yields n elements, also when it is a growable array of
\* another runtime length and when it contains a null element.
C21_FixedSizeFirst ==
  (ArrayMarshalled /\ ret.ti.fixed >= 0 /\ ret.ti.param[1].tag \in ScalarTags)
  => /\ ret.crash = "" /\ ret.raised = ""
     /\ ret.val.t = "table"
     /\ Len(ret.val.e) = ret.ti.fixed

\* C21, amended: the runtime length of a growable array comes first and the
\* fixed size of the descriptor second; an array that is not zero-terminated
\* yields exactly that many elements, and a zero-terminated one never more.
C21_RuntimeLengthFirst ==
  (/\ ArrayMarshalled /\ ret.ti.param[1].tag \in ScalarTags
   /\ ret.crash = "" /\ ret.raised = ""
   /\ (ret.ti.atype = "array" \/ ret.ti.fixed >= 0))
  => LET len == IF ret.ti.atype = "array" THEN Len(ret.ptr.mem) ELSE ret.ti.fixed
     IN /\ ret.val.t = "table"
        /\ IF ret.ti.zt THEN Len(ret.val.e) <= len ELSE Len(ret.val.e) = len

\* C21's case: a growable array of runtime length 2 whose descriptor carries
\* the fixed size 1 has been marshalled to 2 elements
C21_Witness ==
  /\ ArrayMarshalled
  /\ ret.ti = TArray("array", 1, FALSE, TScalar("int32"))
  /\ Len(ret.ptr.mem) = 2
  /\ ret.val.t = "table" /\ Len(ret.val.e) = 2

\* the release call that frees a container of array type atype
ReleaseOf(atype) == IF atype = "c" THEN "g_free" ELSE "g_array_unref"

\* C22: array ownership.  When a native array that is not null is marshalled,
\* every wrapper made for an element is made with transfer everything if the
\* outer transfer is everything and with transfer none otherwise; once the
\* sequence is produced the container has been released exactly once (g_free
\* for a C array, g_array_unref for a growable one) if and only if the outer
\* transfer is not none, and a marshalling that did not read all elements
\* has released nothing.
C22_ArrayOwnership ==
  ArrayMarshalled
  => /\ ret.w > 0 =>
          \A w \in ret.w..Len(ud) :
            ud[w].tr = IF ret.tr = "everything" THEN "everything" ELSE "none"
     /\ IF ret.crash = "" /\ ret.raised = ""
          THEN /\ ret.val.t = "table"
               /\ ret.released = IF ret.tr = "none" THEN <<>>
                                  ELSE <<ReleaseOf(ret.ti.atype)>>
          ELSE ret.released = <<>>

\* C22's case: a growable array of object elements came with transfer
\* container; its element was wrapped with transfer none and the container
\* was unreferenced once
C22_Witness ==
  /\ ArrayMarshalled
  /\ ret.ti = TArray("array", -1, FALSE, TIface("Sub"))
  /\ ret.tr = "container"
  /\ ret.crash = "" /\ ret.raised = ""
  /\ ret.w > 0 /\ ud[ret.w].tr = "none"
  /\ ret.released = <<"g_array_unref">>

----------------------------------------------------------------------------
(* Claims about references and type bindings (checked under SpecRef and      *)
(* Spec)                                                                     *)

\* the live wrappers that own the object at addr
OwnersOf(addr) == {w \in Wrappers : ud[w].live /\ ud[w].addr = addr /\ ud[w].owns = "yes"}

----------------------------------------------------------------------------
(* Claims about caller-allocated outputs (checked under SpecOut) *)

\* the slot of the caller-allocated output of the call in progress
CallocSlot == inv.slots[(IF Fn(inv.fn).method THEN 2 ELSE 1) + 1]

\* C24: caller-allocated output storage stays alive.  The storage of an
\* output-only argument marked caller-allocated is constructed before Invoke,
\* the call returns for that argument the wrapper that owns the storage, the
\* one constructed in MarshalIn, and in every state, also after the
\* collection of the wrappers the Lua program cannot reach, no live wrapper
\* has its address in the inline storage of a collected wrapper.
C24_CallerAllocatedAlive ==
  /\ (inv.pc \in {"Invoke", "CheckError", "MarshalOut", "Done"})
       => /\ CallocSlot.k = "data"
          /\ ud[CallocSlot.n].inline
  /\ inv.pc = "Raised" => inv.exit # "MarshalOut"
  /\ inv.pc = "Done" => inv.results[Len(inv.results)] = Udata(CallocSlot.n)
  /\ \A w \in Wrappers :
       (ud[w].live /\ ud[w].addr.k = "data") => ud[ud[w].addr.n].live

----------------------------------------------------------------------------
(* Claims about arrays of structs and objects (checked under SpecArr) *)

\* C25: element correspondence for compound arrays.  When a native array of
\* struct or object elements is marshalled, the i-th entry of the sequence
\* is the wrapper of the address the i-th native element holds, for every i
\* below the element count, and elements that hold distinct addresses never
\* yield the same wrapper.
C25_ElementCorrespondence ==
  (/\ ArrayMarshalled
   /\ ret.ti.param[1].tag = "interface" /\ ret.ti.param[1].iface \in CompoundTypes
   /\ ret.ti.atype = "array"
   /\ ret.crash = "" /\ ret.raised = "")
  => /\ ret.val.t = "table"
     /\ Len(ret.val.e) = Len(ret.ptr.mem)
     /\ \A i \in 1..Len(ret.val.e) :
          /\ ret.val.e[i].t = "userdata"
          /\ ud[ret.val.e[i].v].addr = ret.ptr.mem[i]
     /\ \A i, j \in 1..Len(ret.val.e) :
          ret.ptr.mem[i] # ret.ptr.mem[j] => ret.val.e[i] # ret.val.e[j]

----------------------------------------------------------------------------
(* Claims about the type binding of a wrapper (checked under SpecRef) *)

\* C26: type-binding assertion validity.  Whenever index, newindex or the
\* finalization runs on a wrapper that compound_store produced, for a type
\* with or without an entry in the repo table, the type-binding reference of
\* the wrapper resolves to an entry that is not nil: the assertion of
\* compound_prepare never fails.
C26_TypeBindingResolves ==
  ret.op \in {"gc", "index", "newindex"} => ret.crash # "g_assert(!lua_isnil(L, -1))"

====
